---- MODULE Spec2Model ----
(***************************************************************************)
(* Agent turn orchestration (Runner.tick), context pruning                 *)
(* (Runner.renderForModel / shiftContextPruning), the pull-request         *)
(* approval check (Runner.checkPRApprovals) and the tools of the pr and    *)
(* user servers (create_pull_request, review_pull_request,                 *)
(* vote_for_solution, ask_user_question) of code-msrchd.                   *)
(*                                                                         *)
(* Indices into a log are 0-based as in the source: the message the source *)
(* calls messages[i] is At(msgs, i) here.                                  *)
(***************************************************************************)
EXTENDS Integers, Sequences, FiniteSets, TLC

\* ------------------------------------------------------------------ bounds
\* Longest log a tick may still start on, in the pruning specification.
MaxLog == 7
\* Longest log a tick may still start on, in the approval and the creation runs.
MaxLogPR == 1
\* Smallest and largest model budget (model.maxTokens()) of the pruning runs.
MinBudget == 4
MaxBudget == 6
\* Budget of the approval runs: large enough that nothing is pruned.
BigBudget == 50
\* Largest experiment (agent_count) of the approval runs.
MaxAgents == 3
\* Most pull requests ever created in one experiment.
MaxPRs == 2

\* Longest log a tick may still start on, in the review runs.
MaxLogTools == 3
\* Highest number of a pull request that is created and reviewed in the review runs.
MaxReviewed == 1
\* Experiment size (agent_count) of the review and the creation runs.
ToolAgents == 2
\* Most pull requests stored at one time in the creation and the vote runs.
MaxCreated == 2

\* Longest log a tick may still start on, in the turn-start runs.
MaxLogTurn == 4
\* Longest timeout_seconds of an ask_user_question call.
MaxTimeout == 2

\* Token count of the system prompt and the tool schemas.
BaseTokens == 1

VARIABLES
  agent_count,      \* experiments.agent_count
  maxTokens,        \* model.maxTokens()
  messages,         \* Runner.messages, per agent
  contextPruning,   \* Runner.contextPruning, per agent
  pc,               \* per agent: where its tick is
  messagesForModel, \* per agent: what renderForModel returned, until the log changes
  message,          \* per agent: the content of the model's response
  toolResults,      \* per agent: each call of the response: pending, running or its result
  tickResult,       \* per agent: what the last finished tick returned
  pull_requests,    \* table pull_requests, in creation order
  pr_reviews,       \* table pr_reviews
  issued,           \* the numbers create_pull_request has given out, in order
  user_questions,   \* table user_questions
  solutions,        \* table solutions: the votes
  newMessage,       \* per agent: whether its tick has pushed a new user message,
                    \* until its call of the model has returned
  checking          \* per agent: its call of checkPRApprovals between two awaits

vars == <<agent_count, maxTokens, messages, contextPruning, pc, messagesForModel,
          message, toolResults, tickResult, pull_requests, pr_reviews, issued,
          user_questions, solutions, newMessage, checking>>

Agents == 0 .. (agent_count - 1)
\* Every index an agent can have.
AgentIds == 0 .. (MaxAgents - 1)

\* ---------------------------------------------------------------- messages
TextContent == [type |-> "text", id |-> 0, name |-> "", input |-> <<>>,
                isError |-> FALSE, tokens |-> 1, content |-> ""]
Thinking == [type |-> "thinking", id |-> 0, name |-> "", input |-> <<>>,
             isError |-> FALSE, tokens |-> 1, content |-> ""]
ToolUse(id, name, input) ==
  [type |-> "tool_use", id |-> id, name |-> name, input |-> input,
   isError |-> FALSE, tokens |-> 1, content |-> ""]

\* The mutant leaves the id of the request out of the result.
ToolResultNoId(t, isError, content) ==
  [type |-> "tool_result", id |-> 0, name |-> t.name, input |-> <<>>,
   isError |-> isError, tokens |-> 1, content |-> content]

ToolResult(t, isError, content) ==
  [type |-> "tool_result", id |-> t.id, name |-> t.name, input |-> <<>>,
   isError |-> isError, tokens |-> 1, content |-> content]

Message(role, content, position) ==
  [role |-> role, content |-> content, position |-> position]

At(msgs, i) == msgs[i + 1]

RECURSIVE SumTokens(_)
SumTokens(content) ==
  IF content = <<>> THEN 0 ELSE Head(content).tokens + SumTokens(Tail(content))

RECURSIVE SumMessages(_)
SumMessages(msgs) ==
  IF msgs = <<>> THEN 0 ELSE SumTokens(Head(msgs).content) + SumMessages(Tail(msgs))

\* model.tokens(messages, systemPrompt, tools)
tokens(msgs) == BaseTokens + SumMessages(msgs)

\* ----------------------------------------------------------------- pruning
isAgentLoopStartMessage(m) ==
  m.role = "user" /\ \A k \in 1 .. Len(m.content) : m.content[k].type = "text"

\* The mutant prunes at any message that holds a tool part, requests and results
\* alike.
isAgentLoopInnerStartMessageAnyToolPart(m) ==
  \E k \in 1 .. Len(m.content) : m.content[k].type \in {"tool_use", "tool_result"}

isAgentLoopInnerStartMessage(m) ==
  m.role = "agent" /\ \E k \in 1 .. Len(m.content) : m.content[k].type = "tool_use"

\* The for loop of shiftContextPruning: the first index >= idx holding an inner
\* start or a loop start, or an index >= Len(msgs) when there is none.
RECURSIVE scan(_, _)
scan(msgs, idx) ==
  IF idx >= Len(msgs) THEN idx
  ELSE IF isAgentLoopInnerStartMessage(At(msgs, idx)) THEN idx
  ELSE IF isAgentLoopStartMessage(At(msgs, idx)) THEN idx
  ELSE scan(msgs, idx + 1)

\* The mutant starts the scan on the inner start itself.
scanStartAtInner(cp) == cp.lastAgentLoopInnerStartIdx

scanStart(cp) ==
  IF cp.lastAgentLoopInnerStartIdx > cp.lastAgentLoopStartIdx
  THEN cp.lastAgentLoopInnerStartIdx + 1
  ELSE cp.lastAgentLoopInnerStartIdx + 2

\* The mutant moves the inner cursor to where the scan ended, found or not.
shiftContextPruningPastEnd(msgs, cp) ==
  IF ~(cp.lastAgentLoopInnerStartIdx < Len(msgs))
  THEN [ok |-> FALSE, code |-> "assertion_error", cp |-> cp]
  ELSE LET idx == scan(msgs, scanStart(cp))
       IN [ok |-> TRUE, code |-> "",
           cp |-> [lastAgentLoopStartIdx |->
                     IF idx < Len(msgs)
                        /\ ~isAgentLoopInnerStartMessage(At(msgs, idx))
                        /\ isAgentLoopStartMessage(At(msgs, idx))
                     THEN idx ELSE cp.lastAgentLoopStartIdx,
                   lastAgentLoopInnerStartIdx |-> idx]]

\* The mutant moves the inner cursor alone, also when the scan stopped on the
\* start of a new loop.
shiftContextPruningInnerOnly(msgs, cp) ==
  IF ~(cp.lastAgentLoopInnerStartIdx < Len(msgs))
  THEN [ok |-> FALSE, code |-> "assertion_error", cp |-> cp]
  ELSE LET idx == scan(msgs, scanStart(cp))
       IN IF idx >= Len(msgs)
          THEN [ok |-> FALSE, code |-> "agent_loop_overflow_error", cp |-> cp]
          ELSE [ok |-> TRUE, code |-> "",
                cp |-> [lastAgentLoopStartIdx |-> cp.lastAgentLoopStartIdx,
                        lastAgentLoopInnerStartIdx |-> idx]]

\* The mutant assigns the cursors before it checks that the scan found a message.
shiftContextPruningAssignFirst(msgs, cp) ==
  IF ~(cp.lastAgentLoopInnerStartIdx < Len(msgs))
  THEN [ok |-> FALSE, code |-> "assertion_error", cp |-> cp]
  ELSE LET idx == scan(msgs, scanStart(cp))
           moved == [lastAgentLoopStartIdx |-> cp.lastAgentLoopStartIdx,
                     lastAgentLoopInnerStartIdx |-> idx]
       IN IF idx >= Len(msgs)
          THEN [ok |-> FALSE, code |-> "agent_loop_overflow_error", cp |-> moved]
          ELSE [ok |-> TRUE, code |-> "",
                cp |-> [lastAgentLoopStartIdx |->
                          IF isAgentLoopInnerStartMessage(At(msgs, idx))
                          THEN cp.lastAgentLoopStartIdx ELSE idx,
                        lastAgentLoopInnerStartIdx |-> idx]]

\* [ok, code, cp]: cp holds the cursors the call leaves behind.
shiftContextPruning(msgs, cp) ==
  IF ~(cp.lastAgentLoopInnerStartIdx < Len(msgs))
  THEN [ok |-> FALSE, code |-> "assertion_error", cp |-> cp]
  ELSE LET idx == scan(msgs, scanStart(cp))
           foundNewAgenticLoop ==
             /\ idx < Len(msgs)
             /\ ~isAgentLoopInnerStartMessage(At(msgs, idx))
             /\ isAgentLoopStartMessage(At(msgs, idx))
       IN IF idx >= Len(msgs)
          THEN [ok |-> FALSE, code |-> "agent_loop_overflow_error", cp |-> cp]
          ELSE [ok |-> TRUE, code |-> "",
                cp |-> [lastAgentLoopStartIdx |->
                          IF foundNewAgenticLoop THEN idx
                          ELSE cp.lastAgentLoopStartIdx,
                        lastAgentLoopInnerStartIdx |-> idx]]

\* The mutant slices from the message after the inner start.
windowAfterInner(msgs, cp) ==
  LET sliced == SubSeq(msgs, cp.lastAgentLoopInnerStartIdx + 2, Len(msgs))
  IN IF cp.lastAgentLoopInnerStartIdx > cp.lastAgentLoopStartIdx
     THEN <<At(msgs, cp.lastAgentLoopStartIdx)>> \o sliced
     ELSE sliced

\* The mutant returns the slice without the loop's user message.
windowNoPrepend(msgs, cp) ==
  SubSeq(msgs, cp.lastAgentLoopInnerStartIdx + 1, Len(msgs))

\* The slice of renderForModel, with the loop's user message put in front of it
\* when the inner cursor is past it.
window(msgs, cp) ==
  LET sliced == SubSeq(msgs, cp.lastAgentLoopInnerStartIdx + 1, Len(msgs))
  IN IF cp.lastAgentLoopInnerStartIdx > cp.lastAgentLoopStartIdx
     THEN <<At(msgs, cp.lastAgentLoopStartIdx)>> \o sliced
     ELSE sliced

\* The mutant counts the tokens of the slice, before the loop's user message is
\* put in front of it.
RECURSIVE renderForModelCountSlice(_, _, _)
renderForModelCountSlice(msgs, cp, max) ==
  LET sliced == SubSeq(msgs, cp.lastAgentLoopInnerStartIdx + 1, Len(msgs))
  IN IF tokens(sliced) > max
     THEN LET res == shiftContextPruning(msgs, cp)
          IN IF ~res.ok
             THEN [ok |-> FALSE, code |-> res.code, value |-> <<>>,
                   cp |-> res.cp, at |-> cp]
             ELSE renderForModelCountSlice(msgs, res.cp, max)
     ELSE [ok |-> TRUE, code |-> "", value |-> window(msgs, cp), cp |-> cp, at |-> cp]

\* [ok, code, value, cp, at]: value is the window returned, cp the cursors the
\* call leaves behind, at the cursors before the last shift it attempted.
RECURSIVE renderForModel(_, _, _)
renderForModel(msgs, cp, max) ==
  IF cp.lastAgentLoopInnerStartIdx > cp.lastAgentLoopStartIdx
     /\ cp.lastAgentLoopStartIdx >= Len(msgs)
  THEN [ok |-> FALSE, code |-> "type_error", value |-> <<>>, cp |-> cp, at |-> cp]
  ELSE LET w == window(msgs, cp)
           tokenCount == tokens(w)
       IN IF tokenCount > max
          THEN LET res == shiftContextPruning(msgs, cp)
               IN IF ~res.ok
                  THEN [ok |-> FALSE, code |-> res.code, value |-> <<>>,
                        cp |-> res.cp, at |-> cp]
                  ELSE renderForModel(msgs, res.cp, max)
          ELSE [ok |-> TRUE, code |-> "", value |-> w, cp |-> cp, at |-> cp]

NoRender == [ok |-> FALSE, code |-> "none", value |-> <<>>]

\* ------------------------------------------------------------------ records
ok == [isErr |-> FALSE, code |-> "", message |-> "", pr |-> 0]
err(code, msg, pr) == [isErr |-> TRUE, code |-> code, message |-> msg, pr |-> pr]
\* A tick that has not returned, and a tick that ended by an exception.
NoResult == [isErr |-> FALSE, code |-> "none", message |-> "", pr |-> 0]
Thrown == [isErr |-> TRUE, code |-> "exception", message |-> "", pr |-> 0]

OverflowMessage == "No agentic loop start position found after last."
PauseMessage == "has received full approval and is ready for user decision. Agent paused."

Decisions == {"approve", "request_changes", "comment"}

OpenPRs == {i \in 1 .. Len(pull_requests) : pull_requests[i].status = "open"}

\* PullRequestResource.findByNumber: the index of the row, 0 when there is none.
findByNumber(prNumber) ==
  IF \E i \in 1 .. Len(pull_requests) : pull_requests[i].number = prNumber
  THEN CHOOSE i \in 1 .. Len(pull_requests) : pull_requests[i].number = prNumber
  ELSE 0

getReviews(pr) == {r \in pr_reviews : r.pull_request = pr.id}

\* The mutant counts every review, whatever its decision.
getApprovalCountAnyDecision(pr) == Cardinality(getReviews(pr))

getApprovalCount(pr) ==
  Cardinality({r \in getReviews(pr) : r.decision = "approve"})

hasRequestedChanges(pr) ==
  \E r \in getReviews(pr) : r.decision = "request_changes"

\* The mutant leaves out one more agent than the author.
requiredApprovalsOneLess == agent_count - 2

\* The mutant asks for one approval at least.
requiredApprovalsAtLeastOne == IF agent_count - 1 > 0 THEN agent_count - 1 ELSE 1

requiredApprovals == agent_count - 1

\* The condition of checkPRApprovals on one pull request.
fullApproval(pr) ==
  getApprovalCount(pr) >= requiredApprovals /\ ~hasRequestedChanges(pr)

\* listByExperiment(id, "open") is ordered by creation, newest first: the loop
\* returns on the newest open pull request that satisfies the condition.
checkPRApprovals ==
  LET hits == {i \in OpenPRs : fullApproval(pull_requests[i])}
  IN IF hits = {} THEN ok
     ELSE LET i == CHOOSE j \in hits : \A k \in hits : k <= j
          IN err("agent_loop_overflow_error", PauseMessage, pull_requests[i].number)

\* A call of checkPRApprovals between two of its awaits: the await it is at,
\* the pull requests of its list it has still to look at, and the approvalCount
\* it has read for the first of them.
Checking(at, prs, n) == [at |-> at, prs |-> prs, n |-> n]
NoCheck == Checking("none", <<>>, 0)

\* The mutant lists the pull requests of every status.
listByExperimentAnyStatus == [k \in 1 .. Len(pull_requests) |-> Len(pull_requests) + 1 - k]

\* listByExperiment(id, "open"): the open pull requests, newest first.
listByExperiment ==
  [k \in 1 .. Cardinality(OpenPRs) |->
     CHOOSE i \in OpenPRs : Cardinality({j \in OpenPRs : j > i}) = k - 1]

Checked(c, result) == [check |-> c, result |-> result]

\* The mutant asks for more approvals than requiredApprovals.
checkPRApprovalsAwaitStrict(c) ==
  IF c.at = "none"
  THEN IF listByExperiment = <<>> THEN Checked(NoCheck, ok)
       ELSE Checked(Checking("getApprovalCount", listByExperiment, 0), NoResult)
  ELSE IF c.at = "getApprovalCount"
  THEN Checked(Checking("hasRequestedChanges", c.prs,
                        getApprovalCount(pull_requests[Head(c.prs)])),
               NoResult)
  ELSE IF c.n > requiredApprovals /\ ~hasRequestedChanges(pull_requests[Head(c.prs)])
  THEN Checked(NoCheck, err("agent_loop_overflow_error", PauseMessage,
                            pull_requests[Head(c.prs)].number))
  ELSE IF Tail(c.prs) = <<>> THEN Checked(NoCheck, ok)
  ELSE Checked(Checking("getApprovalCount", Tail(c.prs), 0), NoResult)

\* checkPRApprovals up to its next await: listByExperiment; for the pull request
\* the loop is at, getApprovalCount, then hasRequestedChanges and the test.
checkPRApprovalsAwait(c) ==
  IF c.at = "none"
  THEN IF listByExperiment = <<>> THEN Checked(NoCheck, ok)
       ELSE Checked(Checking("getApprovalCount", listByExperiment, 0), NoResult)
  ELSE IF c.at = "getApprovalCount"
  THEN Checked(Checking("hasRequestedChanges", c.prs,
                        getApprovalCount(pull_requests[Head(c.prs)])),
               NoResult)
  ELSE IF c.n >= requiredApprovals /\ ~hasRequestedChanges(pull_requests[Head(c.prs)])
  THEN Checked(NoCheck, err("agent_loop_overflow_error", PauseMessage,
                            pull_requests[Head(c.prs)].number))
  ELSE IF Tail(c.prs) = <<>> THEN Checked(NoCheck, ok)
  ELSE Checked(Checking("getApprovalCount", Tail(c.prs), 0), NoResult)

\* --------------------------------------------------------------------- tick
\* The mutant asks for a new user message at every tick.
isNewUserMessageNeededAlways(msgs) == TRUE

\* The mutant asks for a new user message on an empty log only.
isNewUserMessageNeededEmptyOnly(msgs) == Len(msgs) = 0

isNewUserMessageNeeded(msgs) ==
  \/ Len(msgs) = 0
  \/ msgs[Len(msgs)].role = "agent"

newUserMessage(msgs) ==
  Message("user", <<TextContent>>,
          IF Len(msgs) > 0 THEN msgs[Len(msgs)].position + 1 ELSE 0)

\* PullRequestResource.listByAuthor: the pull requests of one author, whatever
\* their status, newest first.
listByAuthor(authorIndex) ==
  LET mine == {i \in 1 .. Len(pull_requests) : pull_requests[i].author = authorIndex}
  IN [k \in 1 .. Cardinality(mine) |->
        CHOOSE i \in mine : Cardinality({j \in mine : j > i}) = k - 1]

\* The two lists newUserMessage renders into the text of the message, under
\* YOUR_OPEN_PULL_REQUESTS and under PULL_REQUESTS_TO_REVIEW.
myOpenPRs(agentIndex) == listByAuthor(agentIndex)

pendingReviewPRs(agentIndex) ==
  SelectSeq(listByExperiment, LAMBDA i : pull_requests[i].author # agentIndex)

ToolUses(content) == SelectSeq(content, LAMBDA c : c.type = "tool_use")

RECURSIVE MaxId(_)
MaxId(msgs) ==
  IF msgs = <<>> THEN 0
  ELSE LET rest == MaxId(Tail(msgs))
           ids == {Head(msgs).content[k].id : k \in 1 .. Len(Head(msgs).content)}
           top == CHOOSE i \in ids \cup {0} : \A j \in ids \cup {0} : j <= i
       IN IF top > rest THEN top ELSE rest

\* The provider gives every tool_use of a response an id of its own: the k-th
\* part of a response to the log msgs gets the id MaxId(msgs) + k.
Identified(msgs, shape) ==
  [k \in 1 .. Len(shape) |->
     IF shape[k].type = "tool_use"
     THEN ToolUse(MaxId(msgs) + k, shape[k].name, shape[k].input)
     ELSE shape[k]]

Pending == [type |-> "pending"]

\* The mutant pushes a new user message also when the last tick returned an error.
TickStartAfterError(a, maxLog) ==
  /\ a \in Agents
  /\ pc[a] = "idle"
  /\ Len(messages[a]) <= maxLog
  /\ messages' = [messages EXCEPT ![a] =
       IF isNewUserMessageNeeded(@) \/ tickResult[a].isErr
       THEN Append(@, newUserMessage(@)) ELSE @]
  /\ pc' = [pc EXCEPT ![a] = "render"]
  /\ newMessage' = [newMessage EXCEPT ![a] =
       isNewUserMessageNeeded(messages[a]) \/ tickResult[a].isErr]
  /\ messagesForModel' = [messagesForModel EXCEPT ![a] = NoRender]
  /\ tickResult' = [tickResult EXCEPT ![a] = NoResult]
  /\ UNCHANGED <<agent_count, maxTokens, contextPruning, message, toolResults,
                 pull_requests, pr_reviews, issued,
                 user_questions, solutions, checking>>

\* tick, up to the call of renderForModel.
TickStart(a, maxLog) ==
  /\ a \in Agents
  /\ pc[a] = "idle"
  /\ Len(messages[a]) <= maxLog
  /\ messages' = [messages EXCEPT ![a] =
       IF isNewUserMessageNeeded(@) THEN Append(@, newUserMessage(@)) ELSE @]
  /\ pc' = [pc EXCEPT ![a] = "render"]
  /\ newMessage' = [newMessage EXCEPT ![a] = isNewUserMessageNeeded(messages[a])]
  /\ messagesForModel' = [messagesForModel EXCEPT ![a] = NoRender]
  /\ tickResult' = [tickResult EXCEPT ![a] = NoResult]
  /\ UNCHANGED <<agent_count, maxTokens, contextPruning, message, toolResults,
                 pull_requests, pr_reviews, issued,
                 user_questions, solutions, checking>>

\* tick when this.tools() returns an error, a client failing to list its tools:
\* the tick returns it before it looks at the log.
TickToolsError(a) ==
  /\ a \in Agents
  /\ pc[a] = "idle"
  /\ tickResult' = [tickResult EXCEPT ![a] =
       err("tool_error", "Error listing tools from client", 0)]
  /\ UNCHANGED <<agent_count, maxTokens, messages, contextPruning, pc,
                 messagesForModel, message, toolResults,
                 pull_requests, pr_reviews, issued,
                 user_questions, solutions, newMessage, checking>>

\* The mutant keeps one pair of cursors for all the agents.
RenderSharedCursors(a) ==
  /\ a \in Agents
  /\ pc[a] = "render"
  /\ LET r == renderForModel(messages[a], contextPruning[a], maxTokens)
     IN /\ contextPruning' = [b \in Agents |-> r.cp]
        /\ messagesForModel' = [messagesForModel EXCEPT ![a] =
             [ok |-> r.ok, code |-> r.code, value |-> r.value, at |-> r.at]]
        /\ pc' = [pc EXCEPT ![a] = IF r.ok THEN "run" ELSE "idle"]
        /\ newMessage' = [newMessage EXCEPT ![a] = IF r.ok THEN @ ELSE FALSE]
        /\ tickResult' = [tickResult EXCEPT ![a] =
             IF r.ok THEN @
             ELSE IF r.code = "agent_loop_overflow_error"
                  THEN err(r.code, OverflowMessage, 0)
                  ELSE Thrown]
  /\ UNCHANGED <<agent_count, maxTokens, messages, message, toolResults,
                 pull_requests, pr_reviews, issued,
                 user_questions, solutions, checking>>

\* The mutant starts over from the first message when render overflows.
RenderResetOnOverflow(a) ==
  /\ a \in Agents
  /\ pc[a] = "render"
  /\ LET r == renderForModel(messages[a], contextPruning[a], maxTokens)
     IN /\ contextPruning' = [contextPruning EXCEPT ![a] =
             IF r.ok THEN r.cp
             ELSE [lastAgentLoopStartIdx |-> 0, lastAgentLoopInnerStartIdx |-> 0]]
        /\ messagesForModel' = [messagesForModel EXCEPT ![a] =
             [ok |-> r.ok, code |-> r.code, value |-> r.value, at |-> r.at]]
        /\ pc' = [pc EXCEPT ![a] = IF r.ok THEN "run" ELSE "idle"]
        /\ newMessage' = [newMessage EXCEPT ![a] = IF r.ok THEN @ ELSE FALSE]
        /\ tickResult' = [tickResult EXCEPT ![a] =
             IF r.ok THEN @ ELSE err(r.code, OverflowMessage, 0)]
  /\ UNCHANGED <<agent_count, maxTokens, messages, message, toolResults,
                 pull_requests, pr_reviews, issued,
                 user_questions, solutions, checking>>

\* tick: the call of renderForModel and the return of its error.
Render(a) ==
  /\ a \in Agents
  /\ pc[a] = "render"
  /\ LET r == renderForModel(messages[a], contextPruning[a], maxTokens)
     IN /\ contextPruning' = [contextPruning EXCEPT ![a] = r.cp]
        /\ messagesForModel' = [messagesForModel EXCEPT ![a] =
             [ok |-> r.ok, code |-> r.code, value |-> r.value, at |-> r.at]]
        /\ pc' = [pc EXCEPT ![a] = IF r.ok THEN "run" ELSE "idle"]
        /\ newMessage' = [newMessage EXCEPT ![a] = IF r.ok THEN @ ELSE FALSE]
        /\ tickResult' = [tickResult EXCEPT ![a] =
             IF r.ok THEN @
             ELSE IF r.code = "agent_loop_overflow_error"
                  THEN err(r.code, OverflowMessage, 0)
                  ELSE Thrown]
  /\ UNCHANGED <<agent_count, maxTokens, messages, message, toolResults,
                 pull_requests, pr_reviews, issued,
                 user_questions, solutions, checking>>

\* The mutant appends an agent message that reports the failure of the model.
ModelRunLogsFailure(a, shapes) ==
  /\ a \in Agents
  /\ pc[a] = "run"
  /\ newMessage' = [newMessage EXCEPT ![a] = FALSE]
  /\ \/ /\ pc' = [pc EXCEPT ![a] = "idle"]
        /\ tickResult' = [tickResult EXCEPT ![a] = err("model_error", "", 0)]
        /\ messages' = [messages EXCEPT ![a] =
             Append(@, Message("agent", <<TextContent>>, @[Len(@)].position + 1))]
        /\ UNCHANGED <<message, toolResults>>
     \/ \E shape \in shapes :
          LET content == Identified(messages[a], shape)
          IN /\ messages' = messages
             /\ IF Len(content) = 0
                THEN /\ pc' = [pc EXCEPT ![a] = "idle"]
                     /\ tickResult' = [tickResult EXCEPT ![a] = ok]
                     /\ UNCHANGED <<message, toolResults>>
                ELSE /\ pc' = [pc EXCEPT ![a] = "tools"]
                     /\ message' = [message EXCEPT ![a] = content]
                     /\ toolResults' = [toolResults EXCEPT ![a] =
                          [k \in 1 .. Len(ToolUses(content)) |-> Pending]]
                     /\ UNCHANGED tickResult
  /\ UNCHANGED <<agent_count, maxTokens, contextPruning, messagesForModel,
                 pull_requests, pr_reviews, issued,
                 user_questions, solutions, checking>>

\* The mutant treats an empty response like any other: it goes on to the tools
\* and appends an agent message without content.
ModelRunKeepEmpty(a, shapes) ==
  /\ a \in Agents
  /\ pc[a] = "run"
  /\ newMessage' = [newMessage EXCEPT ![a] = FALSE]
  /\ \/ /\ pc' = [pc EXCEPT ![a] = "idle"]
        /\ tickResult' = [tickResult EXCEPT ![a] = err("model_error", "", 0)]
        /\ UNCHANGED <<message, toolResults>>
     \/ \E shape \in shapes :
          LET content == Identified(messages[a], shape)
          IN /\ pc' = [pc EXCEPT ![a] = "tools"]
             /\ message' = [message EXCEPT ![a] = content]
             /\ toolResults' = [toolResults EXCEPT ![a] =
                  [k \in 1 .. Len(ToolUses(content)) |-> Pending]]
             /\ UNCHANGED tickResult
  /\ UNCHANGED <<agent_count, maxTokens, messages, contextPruning, messagesForModel,
                 pull_requests, pr_reviews, issued,
                 user_questions, solutions, checking>>

\* tick: model.run under withRetries. The call fails, or it returns a response
\* whose content is one of shapes; empty content ends the tick.
ModelRun(a, shapes) ==
  /\ a \in Agents
  /\ pc[a] = "run"
  /\ newMessage' = [newMessage EXCEPT ![a] = FALSE]
  /\ \/ /\ pc' = [pc EXCEPT ![a] = "idle"]
        /\ tickResult' = [tickResult EXCEPT ![a] = err("model_error", "", 0)]
        /\ UNCHANGED <<message, toolResults>>
     \/ \E shape \in shapes :
          LET content == Identified(messages[a], shape)
          IN IF Len(content) = 0
             THEN /\ pc' = [pc EXCEPT ![a] = "idle"]
                  /\ tickResult' = [tickResult EXCEPT ![a] = ok]
                  /\ UNCHANGED <<message, toolResults>>
             ELSE /\ pc' = [pc EXCEPT ![a] = "tools"]
                  /\ message' = [message EXCEPT ![a] = content]
                  /\ toolResults' = [toolResults EXCEPT ![a] =
                       [k \in 1 .. Len(ToolUses(content)) |-> Pending]]
                  /\ UNCHANGED tickResult
  /\ UNCHANGED <<agent_count, maxTokens, messages, contextPruning, messagesForModel,
                 pull_requests, pr_reviews, issued,
                 user_questions, solutions, checking>>

\* -------------------------------------------------------------------- tools
\* One outcome of a call: its result and the tables it leaves behind.
Outcome(result, prs, reviews) == [result |-> result, prs |-> prs, reviews |-> reviews]

\* errorToCallToolResult(err(code, message)) as the result of the request t.
errorToCallToolResult(t, text) == ToolResult(t, TRUE, text)

\* What executeTool returns when callTool rejects: a handler that threw, a
\* constraint of the database that failed.
ToolExecutionError(t) == errorToCallToolResult(t, "Error executing tool")

\* The mutant takes the highest number among the open pull requests only.
getNextNumberAmongOpen ==
  LET open == {i \in 1 .. Len(pull_requests) : pull_requests[i].status = "open"}
  IN IF open = {} THEN 1
     ELSE LET top == CHOOSE i \in open :
                       \A j \in open : pull_requests[j].number <= pull_requests[i].number
          IN pull_requests[top].number + 1

\* PullRequestResource.getNextNumber: the highest number of a stored row plus one.
getNextNumber ==
  IF Len(pull_requests) = 0 THEN 1
  ELSE LET top == CHOOSE i \in 1 .. Len(pull_requests) :
                    \A j \in 1 .. Len(pull_requests) :
                      pull_requests[j].number <= pull_requests[i].number
       IN pull_requests[top].number + 1

\* The id SQLite gives the next row of pull_requests: the highest rowid plus one.
nextId ==
  IF Len(pull_requests) = 0 THEN 1
  ELSE LET top == CHOOSE i \in 1 .. Len(pull_requests) :
                    \A j \in 1 .. Len(pull_requests) :
                      pull_requests[j].id <= pull_requests[i].id
       IN pull_requests[top].id + 1

\* PullRequestResource.create with the number prNumber: the insert fails on
\* unique(experiment, repository, number).
insertPullRequest(a, t, prNumber) ==
  IF \E i \in 1 .. Len(pull_requests) : pull_requests[i].number = prNumber
  THEN Outcome(ToolExecutionError(t), pull_requests, pr_reviews)
  ELSE Outcome(ToolResult(t, FALSE, "Pull request created successfully!"),
               Append(pull_requests,
                      [id |-> nextId, number |-> prNumber, author |-> a,
                       status |-> "open"]),
               pr_reviews)

\* create_pull_request, its awaits running without another call in between.
create_pull_request(a, t) == {insertPullRequest(a, t, getNextNumber)}

\* PRReviewResource.findByPRAndReviewer: the rows of one reviewer on one pull request.
findByPRAndReviewer(pullRequestId, reviewerIndex) ==
  {r \in pr_reviews : r.pull_request = pullRequestId /\ r.reviewer = reviewerIndex}

\* The mutant inserts a row whether or not the reviewer has one already, and the
\* table has no unique constraint to refuse it.
writeReviewAlwaysInserts(a, t, pullRequestId, existed) ==
  Outcome(ToolResult(t, FALSE, "Review submitted"),
          pull_requests,
          pr_reviews \cup {[pull_request |-> pullRequestId, reviewer |-> a,
                            decision |-> t.input[2]]})

\* The end of review_pull_request, from what findByPRAndReviewer returned:
\* existingReview.update (by the id of the row found) or PRReviewResource.create,
\* whose insert fails on unique(pull_request, reviewer).
writeReview(a, t, pullRequestId, existed) ==
  LET row == [pull_request |-> pullRequestId, reviewer |-> a, decision |-> t.input[2]]
      now == findByPRAndReviewer(pullRequestId, a)
  IN IF existed
     THEN Outcome(ToolResult(t, FALSE, "Review updated"),
                  pull_requests,
                  IF now = {} THEN pr_reviews ELSE (pr_reviews \ now) \cup {row})
     ELSE IF now # {}
     THEN Outcome(ToolExecutionError(t), pull_requests, pr_reviews)
     ELSE Outcome(ToolResult(t, FALSE, "Review submitted"),
                  pull_requests, pr_reviews \cup {row})

\* review_pull_request, its awaits running without another call in between.
review_pull_request(a, t) ==
  LET i == findByNumber(t.input[1])
  IN IF i = 0
     THEN {Outcome(errorToCallToolResult(t, "Pull request not found."),
                   pull_requests, pr_reviews)}
     ELSE IF pull_requests[i].author = a
     THEN {Outcome(errorToCallToolResult(t, "You cannot review your own pull request"),
                   pull_requests, pr_reviews)}
     ELSE {writeReview(a, t, pull_requests[i].id,
                       findByPRAndReviewer(pull_requests[i].id, a) # {})}

\* The numbers given out once a call has left the rows prs behind.
Issued(prs) ==
  IF Len(prs) > Len(pull_requests) THEN Append(issued, prs[Len(prs)].number)
  ELSE issued

\* A sandbox command: it returns its output, or the call throws (the sandbox is
\* gone, the request times out) and executeTool catches it; it touches no table.
computer_execute(t) ==
  {Outcome(ToolResult(t, FALSE, "output"), pull_requests, pr_reviews),
   Outcome(ToolExecutionError(t), pull_requests, pr_reviews)}

\* The names of the tools the MCP clients list.
ToolNames ==
  {"computer-execute", "pr-create_pull_request", "pr-review_pull_request",
   "pr-vote_for_solution", "user-ask_user_question"}

\* The mutant throws when no client lists the tool.
executeToolThrowOnUnknown(a, t) ==
  IF t.name = "computer-execute" THEN computer_execute(t)
  ELSE IF t.name = "pr-create_pull_request" THEN create_pull_request(a, t)
  ELSE IF t.name = "pr-review_pull_request" THEN review_pull_request(a, t)
  ELSE IF t.name = "user-ask_user_question" THEN {}
  ELSE IF t.name = "pr-vote_for_solution" THEN {}
  ELSE {Outcome([type |-> "thrown"], pull_requests, pr_reviews)}

\* executeTool: every outcome of the call of one tool_use by agent a. A call of
\* ask_user_question waits for the clock and has its own steps (AskAwait); a call
\* of vote_for_solution writes the votes and has its own steps (VoteAwait).
executeTool(a, t) ==
  IF t.name = "computer-execute" THEN computer_execute(t)
  ELSE IF t.name = "pr-create_pull_request" THEN create_pull_request(a, t)
  ELSE IF t.name = "pr-review_pull_request" THEN review_pull_request(a, t)
  ELSE IF t.name = "user-ask_user_question" THEN {}
  ELSE IF t.name = "pr-vote_for_solution" THEN {}
  ELSE {Outcome(errorToCallToolResult(t, "No MCP client found to execute tool"),
                pull_requests, pr_reviews)}

\* concurrentExecutor: the result of the k-th item takes the k-th place of the
\* array it returns, whenever the call finishes.
concurrentExecutor(results, k, result) == [results EXCEPT ![k] = result]

\* The mutant lets the error of one call end the tick, as a rejected Promise.all
\* would.
ExecToolAbortOnError(a) ==
  /\ a \in Agents
  /\ pc[a] = "tools"
  /\ \E k \in 1 .. Len(toolResults[a]) :
       /\ toolResults[a][k].type = "pending"
       /\ \E o \in executeTool(a, ToolUses(message[a])[k]) :
            /\ toolResults' = [toolResults EXCEPT ![a] = concurrentExecutor(@, k, o.result)]
            /\ pull_requests' = o.prs
            /\ pr_reviews' = o.reviews
            /\ issued' = Issued(o.prs)
            /\ pc' = [pc EXCEPT ![a] = IF o.result.isError THEN "idle" ELSE @]
            /\ tickResult' = [tickResult EXCEPT ![a] =
                 IF o.result.isError THEN err("tool_execution_error", "", 0) ELSE @]
  /\ UNCHANGED <<agent_count, maxTokens, messages, contextPruning,
                 messagesForModel, message,
                 user_questions, solutions, newMessage, checking>>

\* tick: one of the calls concurrentExecutor runs; the calls of one response
\* finish in any order and each result takes the place of its request.
ExecTool(a) ==
  /\ a \in Agents
  /\ pc[a] = "tools"
  /\ \E k \in 1 .. Len(toolResults[a]) :
       /\ toolResults[a][k].type = "pending"
       /\ \E o \in executeTool(a, ToolUses(message[a])[k]) :
            /\ toolResults' = [toolResults EXCEPT ![a] = concurrentExecutor(@, k, o.result)]
            /\ pull_requests' = o.prs
            /\ pr_reviews' = o.reviews
            /\ issued' = Issued(o.prs)
  /\ UNCHANGED <<agent_count, maxTokens, messages, contextPruning, pc,
                 messagesForModel, message, tickResult,
                 user_questions, solutions, newMessage, checking>>

\* A call between two of its awaits: where it is and what it has read so far.
Running(at, pr, n) == [type |-> "running", at |-> at, pr |-> pr, n |-> n]

\* create_pull_request up to its next await: getNextNumber, then create.
create_pull_requestAwait(a, t, c) ==
  IF c.type = "pending"
  THEN {Outcome(Running("getNextNumber", 0, getNextNumber), pull_requests, pr_reviews)}
  ELSE {insertPullRequest(a, t, c.n)}

\* The mutant lets the author of a pull request review it.
review_pull_requestAwaitAnyReviewer(a, t, c) ==
  IF c.type = "pending"
  THEN LET i == findByNumber(t.input[1])
       IN IF i = 0
          THEN {Outcome(errorToCallToolResult(t, "Pull request not found."),
                        pull_requests, pr_reviews)}
          ELSE {Outcome(Running("findByNumber", pull_requests[i].id, 0),
                        pull_requests, pr_reviews)}
  ELSE IF c.at = "findByNumber"
  THEN {Outcome(Running("findByPRAndReviewer", c.pr,
                        IF findByPRAndReviewer(c.pr, a) # {} THEN 1 ELSE 0),
                pull_requests, pr_reviews)}
  ELSE {writeReview(a, t, c.pr, c.n = 1)}

\* review_pull_request up to its next await: findByNumber and the check of the
\* author, then findByPRAndReviewer, then update or create.
review_pull_requestAwait(a, t, c) ==
  IF c.type = "pending"
  THEN LET i == findByNumber(t.input[1])
       IN IF i = 0
          THEN {Outcome(errorToCallToolResult(t, "Pull request not found."),
                        pull_requests, pr_reviews)}
          ELSE IF pull_requests[i].author = a
          THEN {Outcome(errorToCallToolResult(t, "You cannot review your own pull request"),
                        pull_requests, pr_reviews)}
          ELSE {Outcome(Running("findByNumber", pull_requests[i].id, 0),
                        pull_requests, pr_reviews)}
  ELSE IF c.at = "findByNumber"
  THEN {Outcome(Running("findByPRAndReviewer", c.pr,
                        IF findByPRAndReviewer(c.pr, a) # {} THEN 1 ELSE 0),
                pull_requests, pr_reviews)}
  ELSE {writeReview(a, t, c.pr, c.n = 1)}

\* executeTool up to the next await of the handler it calls.
executeToolAwait(a, t, c) ==
  IF t.name = "pr-create_pull_request" THEN create_pull_requestAwait(a, t, c)
  ELSE IF t.name = "pr-review_pull_request" THEN review_pull_requestAwait(a, t, c)
  ELSE executeTool(a, t)

\* tick: one of the calls concurrentExecutor runs goes on to its next await; the
\* calls of one response and the calls of other agents run in between.
ExecToolAwait(a) ==
  /\ a \in Agents
  /\ pc[a] = "tools"
  /\ \E k \in 1 .. Len(toolResults[a]) :
       /\ toolResults[a][k].type \in {"pending", "running"}
       /\ \E o \in executeToolAwait(a, ToolUses(message[a])[k], toolResults[a][k]) :
            /\ toolResults' = [toolResults EXCEPT ![a] = concurrentExecutor(@, k, o.result)]
            /\ pull_requests' = o.prs
            /\ pr_reviews' = o.reviews
            /\ issued' = Issued(o.prs)
  /\ UNCHANGED <<agent_count, maxTokens, messages, contextPruning, pc,
                 messagesForModel, message, tickResult,
                 user_questions, solutions, newMessage, checking>>

\* A call of ask_user_question between two of its awaits: the question it
\* stored, the seconds since startTime, and when its sleep ends.
Asking(at, q, elapsed, wake) ==
  [type |-> "running", at |-> at, pr |-> q, n |-> elapsed, wake |-> wake]

Asked(c, questions) == [result |-> c, questions |-> questions]

TimeoutNotice == "[Timeout] User did not answer. Proceeding without answer."

\* The mutant reports the timeout as an error of the tool.
ask_user_questionAwaitTimeoutIsError(a, t, c) ==
  IF c.type = "pending"
  THEN Asked(Asking("poll", Len(user_questions) + 1, 0, 0),
             Append(user_questions,
                    [agent |-> a, status |-> "pending", answer |-> FALSE]))
  ELSE IF c.at = "poll"
  THEN IF c.n < t.input[1]
       THEN IF user_questions[c.pr].answer
            THEN Asked(Asking("answered", c.pr, c.n, 0), user_questions)
            ELSE Asked(Asking("sleep", c.pr, c.n, c.n + 1), user_questions)
       ELSE Asked(errorToCallToolResult(t, TimeoutNotice),
                  [user_questions EXCEPT ![c.pr].status = "timeout"])
  ELSE IF c.at = "sleep"
  THEN Asked(Asking("poll", c.pr, c.n, 0), user_questions)
  ELSE Asked(ToolResult(t, FALSE, "User answered"),
             [user_questions EXCEPT ![c.pr].status = "answered"])

\* ask_user_question up to its next await: the insert of the question; the test
\* of the loop with the select, or with the update to timeout when the time is
\* up; the sleep of pollInterval; the update to answered.
ask_user_questionAwait(a, t, c) ==
  IF c.type = "pending"
  THEN Asked(Asking("poll", Len(user_questions) + 1, 0, 0),
             Append(user_questions,
                    [agent |-> a, status |-> "pending", answer |-> FALSE]))
  ELSE IF c.at = "poll"
  THEN IF c.n < t.input[1]
       THEN IF user_questions[c.pr].answer
            THEN Asked(Asking("answered", c.pr, c.n, 0), user_questions)
            ELSE Asked(Asking("sleep", c.pr, c.n, c.n + 1), user_questions)
       ELSE Asked(ToolResult(t, FALSE, TimeoutNotice),
                  [user_questions EXCEPT ![c.pr].status = "timeout"])
  ELSE IF c.at = "sleep"
  THEN Asked(Asking("poll", c.pr, c.n, 0), user_questions)
  ELSE Asked(ToolResult(t, FALSE, "User answered"),
             [user_questions EXCEPT ![c.pr].status = "answered"])

IsAsk(t) == t.name = "user-ask_user_question"

\* tick: the k-th call of the response, a call of ask_user_question, goes on to
\* its next await; a sleeping call goes on when its timer has fired.
AskAwait(a, k) ==
  /\ a \in Agents
  /\ pc[a] = "tools"
  /\ k \in 1 .. Len(toolResults[a])
  /\ IsAsk(ToolUses(message[a])[k])
  /\ toolResults[a][k].type \in {"pending", "running"}
  /\ toolResults[a][k].type = "running" /\ toolResults[a][k].at = "sleep"
       => toolResults[a][k].n >= toolResults[a][k].wake
  /\ LET o == ask_user_questionAwait(a, ToolUses(message[a])[k], toolResults[a][k])
     IN /\ toolResults' = [toolResults EXCEPT ![a] = concurrentExecutor(@, k, o.result)]
        /\ user_questions' = o.questions
  /\ UNCHANGED <<agent_count, maxTokens, messages, contextPruning, pc,
                 messagesForModel, message, tickResult, pull_requests, pr_reviews,
                 issued, solutions, newMessage, checking>>

\* The seconds a call of ask_user_question can tell apart: up to one past the
\* longest timeout.
Older(c) ==
  IF c.type = "running" /\ c.at \in {"poll", "sleep", "answered"} /\ c.n <= MaxTimeout
  THEN [c EXCEPT !.n = @ + 1]
  ELSE c

\* One second passes: Date.now() is one second later for every call that waits.
Second ==
  /\ \E a \in Agents : \E k \in 1 .. Len(toolResults[a]) :
       toolResults[a][k] # Older(toolResults[a][k])
  /\ toolResults' = [a \in Agents |->
       [k \in 1 .. Len(toolResults[a]) |-> Older(toolResults[a][k])]]
  /\ UNCHANGED <<agent_count, maxTokens, messages, contextPruning, pc,
                 messagesForModel, message, tickResult, pull_requests, pr_reviews,
                 issued, user_questions, solutions, newMessage, checking>>

\* The answer endpoint of the dashboard.
Answer(questionId) ==
  /\ questionId \in 1 .. Len(user_questions)
  /\ user_questions' = [user_questions EXCEPT ![questionId].answer = TRUE,
                                               ![questionId].status = "answered"]
  /\ UNCHANGED <<agent_count, maxTokens, messages, contextPruning, pc,
                 messagesForModel, message, toolResults, tickResult, pull_requests,
                 pr_reviews, issued, solutions, newMessage, checking>>

\* The mutant inserts a row whether or not the agent has voted already, and the
\* table has no unique constraint to refuse it.
voteAlwaysInserts(agentIndex, pullRequestId) ==
  solutions \cup {[agent |-> agentIndex, pull_request |-> pullRequestId]}

\* SolutionResource.vote: one insert that, on the conflict of (experiment, agent),
\* updates the pull request of the row there is.
vote(agentIndex, pullRequestId) ==
  {s \in solutions : s.agent # agentIndex}
    \cup {[agent |-> agentIndex, pull_request |-> pullRequestId]}

Voted(c, votes) == [result |-> c, solutions |-> votes]

\* vote_for_solution up to its next await: findByNumber, then SolutionResource.vote.
vote_for_solutionAwait(a, t, c) ==
  IF c.type = "pending"
  THEN LET i == findByNumber(t.input[1])
       IN IF i = 0
          THEN Voted(errorToCallToolResult(t, "Pull request not found."), solutions)
          ELSE Voted(Running("findByNumber", pull_requests[i].id, 0), solutions)
  ELSE Voted(ToolResult(t, FALSE, "Voted as the best solution"), vote(a, c.pr))

IsVote(t) == t.name = "pr-vote_for_solution"

\* tick: the k-th call of the response, a call of vote_for_solution, goes on to
\* its next await; the calls of other agents run in between.
VoteAwait(a, k) ==
  /\ a \in Agents
  /\ pc[a] = "tools"
  /\ k \in 1 .. Len(toolResults[a])
  /\ IsVote(ToolUses(message[a])[k])
  /\ toolResults[a][k].type \in {"pending", "running"}
  /\ LET o == vote_for_solutionAwait(a, ToolUses(message[a])[k], toolResults[a][k])
     IN /\ toolResults' = [toolResults EXCEPT ![a] = concurrentExecutor(@, k, o.result)]
        /\ solutions' = o.solutions
  /\ UNCHANGED <<agent_count, maxTokens, messages, contextPruning, pc,
                 messagesForModel, message, tickResult, pull_requests, pr_reviews,
                 issued, user_questions, newMessage, checking>>

AllDone(results) == \A k \in 1 .. Len(results) : results[k].type = "tool_result"

\* tick: the agent message is created and pushed.
AppendAgent(a) ==
  /\ a \in Agents
  /\ pc[a] = "tools"
  /\ AllDone(toolResults[a])
  /\ LET last == messages[a][Len(messages[a])]
     IN messages' = [messages EXCEPT ![a] =
          Append(@, Message("agent", message[a], last.position + 1))]
  /\ pc' = [pc EXCEPT ![a] = IF Len(toolResults[a]) > 0 THEN "results" ELSE "check"]
  /\ message' = [message EXCEPT ![a] = <<>>]
  /\ messagesForModel' = [messagesForModel EXCEPT ![a] = NoRender]
  /\ UNCHANGED <<agent_count, maxTokens, contextPruning, toolResults, tickResult,
                 pull_requests, pr_reviews, issued,
                 user_questions, solutions, newMessage, checking>>

\* The mutant pushes one message for each result.
AppendResultsOneByOne(a) ==
  /\ a \in Agents
  /\ pc[a] = "results"
  /\ LET last == messages[a][Len(messages[a]) - 1]
     IN messages' = [messages EXCEPT ![a] =
          @ \o [k \in 1 .. Len(toolResults[a]) |->
                 Message("user", <<toolResults[a][k]>>, last.position + 1 + k)]]
  /\ pc' = [pc EXCEPT ![a] = "check"]
  /\ toolResults' = [toolResults EXCEPT ![a] = <<>>]
  /\ UNCHANGED <<agent_count, maxTokens, contextPruning, messagesForModel, message,
                 tickResult, pull_requests, pr_reviews, issued,
                 user_questions, solutions, newMessage, checking>>

\* The mutant leaves the results that are errors out of the message.
AppendResultsSuccessesOnly(a) ==
  /\ a \in Agents
  /\ pc[a] = "results"
  /\ LET last == messages[a][Len(messages[a]) - 1]
     IN messages' = [messages EXCEPT ![a] =
          Append(@, Message("user",
                            SelectSeq(toolResults[a], LAMBDA r : ~r.isError),
                            last.position + 2))]
  /\ pc' = [pc EXCEPT ![a] = "check"]
  /\ toolResults' = [toolResults EXCEPT ![a] = <<>>]
  /\ UNCHANGED <<agent_count, maxTokens, contextPruning, messagesForModel, message,
                 tickResult, pull_requests, pr_reviews, issued,
                 user_questions, solutions, newMessage, checking>>

\* The mutant takes last.position() + 1 for the message of the tool results too.
AppendResultsSamePosition(a) ==
  /\ a \in Agents
  /\ pc[a] = "results"
  /\ LET last == messages[a][Len(messages[a]) - 1]
     IN messages' = [messages EXCEPT ![a] =
          Append(@, Message("user", toolResults[a], last.position + 1))]
  /\ pc' = [pc EXCEPT ![a] = "check"]
  /\ toolResults' = [toolResults EXCEPT ![a] = <<>>]
  /\ UNCHANGED <<agent_count, maxTokens, contextPruning, messagesForModel, message,
                 tickResult, pull_requests, pr_reviews, issued,
                 user_questions, solutions, newMessage, checking>>

\* tick: the message of the tool results is created and pushed. last was read
\* before the agent message was pushed, hence last.position() + 2.
AppendResults(a) ==
  /\ a \in Agents
  /\ pc[a] = "results"
  /\ LET last == messages[a][Len(messages[a]) - 1]
     IN messages' = [messages EXCEPT ![a] =
          Append(@, Message("user", toolResults[a], last.position + 2))]
  /\ pc' = [pc EXCEPT ![a] = "check"]
  /\ toolResults' = [toolResults EXCEPT ![a] = <<>>]
  /\ UNCHANGED <<agent_count, maxTokens, contextPruning, messagesForModel, message,
                 tickResult, pull_requests, pr_reviews, issued,
                 user_questions, solutions, newMessage, checking>>

\* The mutant pauses the author of the pull request only.
CheckAuthorOnly(a) ==
  /\ a \in Agents
  /\ pc[a] = "check"
  /\ pc' = [pc EXCEPT ![a] = "idle"]
  /\ tickResult' = [tickResult EXCEPT ![a] =
       IF /\ checkPRApprovals.isErr
          /\ pull_requests[findByNumber(checkPRApprovals.pr)].author # a
       THEN ok ELSE checkPRApprovals]
  /\ UNCHANGED <<agent_count, maxTokens, messages, contextPruning, messagesForModel,
                 message, toolResults, pull_requests, pr_reviews, issued,
                 user_questions, solutions, newMessage, checking>>

\* tick: checkPRApprovals and the return.
Check(a) ==
  /\ a \in Agents
  /\ pc[a] = "check"
  /\ pc' = [pc EXCEPT ![a] = "idle"]
  /\ tickResult' = [tickResult EXCEPT ![a] = checkPRApprovals]
  /\ UNCHANGED <<agent_count, maxTokens, messages, contextPruning, messagesForModel,
                 message, toolResults, pull_requests, pr_reviews, issued,
                 user_questions, solutions, newMessage, checking>>

\* tick: checkPRApprovals goes on to its next await, and the tick returns what it
\* returns; the calls and the checks of other agents run in between.
CheckAwait(a) ==
  /\ a \in Agents
  /\ pc[a] = "check"
  /\ LET o == checkPRApprovalsAwait(checking[a])
     IN /\ checking' = [checking EXCEPT ![a] = o.check]
        /\ pc' = [pc EXCEPT ![a] = IF o.result = NoResult THEN @ ELSE "idle"]
        /\ tickResult' = [tickResult EXCEPT ![a] = o.result]
  /\ UNCHANGED <<agent_count, maxTokens, messages, contextPruning, messagesForModel,
                 message, toolResults, pull_requests, pr_reviews, issued,
                 user_questions, solutions, newMessage>>

\* tick: one of its awaits rejects (a database write fails, the process is
\* stopped): the tick ends there with what it has appended so far.
TickThrow(a) ==
  /\ a \in Agents
  /\ pc[a] # "idle"
  /\ pc' = [pc EXCEPT ![a] = "idle"]
  /\ newMessage' = [newMessage EXCEPT ![a] = FALSE]
  /\ tickResult' = [tickResult EXCEPT ![a] = Thrown]
  /\ message' = [message EXCEPT ![a] = <<>>]
  /\ toolResults' = [toolResults EXCEPT ![a] = <<>>]
  /\ checking' = [checking EXCEPT ![a] = NoCheck]
  /\ UNCHANGED <<agent_count, maxTokens, messages, contextPruning, messagesForModel,
                 pull_requests, pr_reviews, issued,
                 user_questions, solutions>>

\* Runner.initialize: a new Runner over the stored log, its cursors at 0.
Initialize(a) ==
  /\ a \in Agents
  /\ pc[a] = "idle"
  /\ contextPruning[a] # [lastAgentLoopStartIdx |-> 0, lastAgentLoopInnerStartIdx |-> 0]
  /\ contextPruning' = [contextPruning EXCEPT ![a] =
       [lastAgentLoopStartIdx |-> 0, lastAgentLoopInnerStartIdx |-> 0]]
  /\ messagesForModel' = [messagesForModel EXCEPT ![a] = NoRender]
  /\ tickResult' = [tickResult EXCEPT ![a] = NoResult]
  /\ UNCHANGED <<agent_count, maxTokens, messages, pc, message, toolResults,
                 pull_requests, pr_reviews, issued,
                 user_questions, solutions, newMessage, checking>>

\* The accept and reject endpoints of the dashboard.
Accept(prNumber) ==
  /\ findByNumber(prNumber) # 0
  /\ pull_requests' = [pull_requests EXCEPT ![findByNumber(prNumber)].status = "merged"]
  /\ UNCHANGED <<agent_count, maxTokens, messages, contextPruning, pc,
                 messagesForModel, message, toolResults, tickResult, pr_reviews, issued,
                 user_questions, solutions, newMessage, checking>>

Reject(prNumber) ==
  /\ findByNumber(prNumber) # 0
  /\ pull_requests' = [pull_requests EXCEPT ![findByNumber(prNumber)].status = "closed"]
  /\ UNCHANGED <<agent_count, maxTokens, messages, contextPruning, pc,
                 messagesForModel, message, toolResults, tickResult, pr_reviews, issued,
                 user_questions, solutions, newMessage, checking>>

\* PullRequestResource.delete, on a pull request no review refers to.
Delete(prNumber) ==
  /\ findByNumber(prNumber) # 0
  /\ getReviews(pull_requests[findByNumber(prNumber)]) = {}
  /\ pull_requests' = SelectSeq(pull_requests, LAMBDA row : row.number # prNumber)
  /\ UNCHANGED <<agent_count, maxTokens, messages, contextPruning, pc,
                 messagesForModel, message, toolResults, tickResult, pr_reviews, issued,
                 user_questions, solutions, newMessage, checking>>

\* ----------------------------------------------------------- specifications
Execute == ToolUse(0, "computer-execute", <<>>)
CreatePR == ToolUse(0, "pr-create_pull_request", <<>>)
ReviewPR(n, d) == ToolUse(0, "pr-review_pull_request", <<n, d>>)

\* The responses of the model in the pruning runs: text, thinking and sandbox
\* commands.
ComputerShapes ==
  {<<>>, <<TextContent>>, <<Thinking, TextContent>>, <<Execute>>,
   <<TextContent, Execute>>, <<Execute, Execute>>}

\* create_pull_request calls that were requested and have not run yet.
PendingCreates ==
  Cardinality({<<a, k>> \in Agents \X (1 .. 2) :
                 /\ k <= Len(toolResults[a])
                 /\ toolResults[a][k].type \in {"pending", "running"}
                 /\ ToolUses(message[a])[k].name = "pr-create_pull_request"})

Creates(shape) ==
  Len(SelectSeq(shape, LAMBDA c : c.name = "pr-create_pull_request"))

\* The responses of the model in the approval runs: one or two calls of the
\* pull-request tools. No more than MaxPRs pull requests are ever asked for.
PRShapes ==
  LET all == {<<>>, <<TextContent>>, <<CreatePR>>, <<CreatePR, CreatePR>>}
               \cup {<<ReviewPR(n, d)>> : n \in 1 .. MaxPRs, d \in Decisions}
               \cup {<<ReviewPR(nmd[1], "approve"), ReviewPR(nmd[2], nmd[3])>> :
                       nmd \in {x \in (1 .. MaxPRs) \X (1 .. MaxPRs) \X Decisions :
                                  x[1] < x[2]}}
  IN {shape \in all :
        Len(pull_requests) + PendingCreates + Creates(shape) <= MaxPRs}

InitRunner(n) ==
  /\ agent_count = n
  /\ messages = [a \in 0 .. n - 1 |-> <<>>]
  /\ contextPruning = [a \in 0 .. n - 1 |->
       [lastAgentLoopStartIdx |-> 0, lastAgentLoopInnerStartIdx |-> 0]]
  /\ pc = [a \in 0 .. n - 1 |-> "idle"]
  /\ messagesForModel = [a \in 0 .. n - 1 |-> NoRender]
  /\ message = [a \in 0 .. n - 1 |-> <<>>]
  /\ toolResults = [a \in 0 .. n - 1 |-> <<>>]
  /\ tickResult = [a \in 0 .. n - 1 |-> NoResult]
  /\ pull_requests = <<>>
  /\ pr_reviews = {}
  /\ issued = <<>>
  /\ user_questions = <<>>
  /\ solutions = {}
  /\ newMessage = [a \in 0 .. n - 1 |-> FALSE]
  /\ checking = [a \in 0 .. n - 1 |-> NoCheck]

\* One agent, a small budget, sandbox commands only: the pruning runs.
Init ==
  /\ maxTokens \in MinBudget .. MaxBudget
  /\ InitRunner(1)

Next ==
  \E a \in AgentIds :
    \/ TickStart(a, MaxLog)
    \/ Render(a)
    \/ ModelRun(a, ComputerShapes)
    \/ ExecTool(a)
    \/ AppendAgent(a)
    \/ AppendResults(a)
    \/ Check(a)
    \/ TickThrow(a)
    \/ Initialize(a)

Spec == Init /\ [][Next]_vars

\* The pruning runs of one Runner, none of its ticks interrupted.
NextRun ==
  \E a \in AgentIds :
    \/ TickStart(a, MaxLog)
    \/ Render(a)
    \/ ModelRun(a, ComputerShapes)
    \/ ExecTool(a)
    \/ AppendAgent(a)
    \/ AppendResults(a)
    \/ Check(a)

SpecRun == Init /\ [][NextRun]_vars

\* The pruning runs with ticks whose listing of the tools fails.
NextTools ==
  \/ Next
  \/ \E a \in AgentIds : TickToolsError(a)

SpecTools == Init /\ [][NextTools]_vars

\* Several agents, a budget nothing exceeds, pull-request tools: the approval runs.
InitPR ==
  /\ maxTokens = BigBudget
  /\ \E n \in 1 .. MaxAgents : InitRunner(n)

NextPR ==
  \/ \E a \in AgentIds :
       \/ TickStart(a, MaxLogPR)
       \/ Render(a)
       \/ ModelRun(a, PRShapes)
       \/ ExecTool(a)
       \/ AppendAgent(a)
       \/ AppendResults(a)
       \/ Check(a)
  \/ \E n \in 1 .. MaxPRs : Accept(n) \/ Reject(n)

SpecPR == InitPR /\ [][NextPR]_vars

\* The responses of the model in the review runs: a pull request is created, or
\* reviewed by one call or by two calls of one response.
ReviewShapes ==
  LET all == {<<CreatePR>>}
               \cup {<<ReviewPR(n, d)>> : n \in 1 .. MaxReviewed, d \in Decisions}
               \cup {<<ReviewPR(n, "approve"), ReviewPR(n, d)>> :
                       n \in 1 .. MaxReviewed, d \in Decisions \ {"approve"}}
  IN {shape \in all :
        Len(pull_requests) + PendingCreates + Creates(shape) <= MaxReviewed}

\* Two agents whose review calls run await by await: the review runs.
InitReview ==
  /\ maxTokens = BigBudget
  /\ InitRunner(ToolAgents)

NextReview ==
  \E a \in AgentIds :
    \/ TickStart(a, MaxLogTools)
    \/ Render(a)
    \/ ModelRun(a, ReviewShapes)
    \/ ExecToolAwait(a)
    \/ AppendAgent(a)
    \/ AppendResults(a)
    \/ Check(a)

SpecReview == InitReview /\ [][NextReview]_vars

\* A request of a tool no client lists.
Unknown == ToolUse(0, "pr-merge_pull_request", <<>>)

\* The responses of the model in the creation runs: one or two pull requests are
\* created, a tool is called that does not exist.
CreateShapes ==
  LET all == {<<CreatePR>>, <<CreatePR, CreatePR>>, <<Unknown>>, <<Unknown, CreatePR>>}
  IN {shape \in all :
        Len(pull_requests) + PendingCreates + Creates(shape) <= MaxCreated}

\* Two agents whose calls run await by await, and the deletion of pull requests:
\* the creation runs.
InitCreate ==
  /\ maxTokens = BigBudget
  /\ InitRunner(ToolAgents)

NextCreate ==
  \/ \E a \in AgentIds :
       \/ TickStart(a, MaxLogPR)
       \/ Render(a)
       \/ ModelRun(a, CreateShapes)
       \/ ExecToolAwait(a)
       \/ AppendAgent(a)
       \/ AppendResults(a)
       \/ Check(a)
  \/ \E n \in 1 .. MaxCreated : Delete(n)

SpecCreate == InitCreate /\ [][NextCreate]_vars

Ask(timeout_seconds) == ToolUse(0, "user-ask_user_question", <<timeout_seconds>>)

\* The responses of the model in the question runs: one question, or two with
\* the shortest and the longest timeout.
AskShapes ==
  {<<Ask(timeout_seconds)>> : timeout_seconds \in 1 .. MaxTimeout}
    \cup {<<Ask(1), Ask(MaxTimeout)>>}

\* The ids of the questions one response can store.
QuestionIds == 1 .. 2

\* One agent that asks the user, the user who answers or does not, and the
\* clock: the question runs.
InitAsk ==
  /\ maxTokens = BigBudget
  /\ InitRunner(1)

NextAsk ==
  \/ \E a \in AgentIds :
       \/ TickStart(a, MaxLogPR)
       \/ Render(a)
       \/ ModelRun(a, AskShapes)
       \/ \E k \in 1 .. 2 : AskAwait(a, k)
       \/ AppendAgent(a)
       \/ AppendResults(a)
       \/ Check(a)
  \/ \E questionId \in QuestionIds : Answer(questionId)
  \/ Second

\* The event loop runs every continuation that is ready, and time passes.
FairAsk ==
  /\ \A a \in AgentIds : \A k \in 1 .. 2 : WF_vars(AskAwait(a, k))
  /\ WF_vars(Second)

SpecAsk == InitAsk /\ [][NextAsk]_vars /\ FairAsk

Vote(pr_number) == ToolUse(0, "pr-vote_for_solution", <<pr_number>>)

\* The responses of the model in the vote runs: one or two pull requests are
\* created, a vote is cast, or two votes are cast by one response.
VoteShapes ==
  LET all == {<<CreatePR>>, <<CreatePR, CreatePR>>}
               \cup {<<Vote(n)>> : n \in 1 .. MaxCreated}
               \cup {<<Vote(1), Vote(MaxCreated)>>}
  IN {shape \in all :
        Len(pull_requests) + PendingCreates + Creates(shape) <= MaxCreated}

\* Two agents that create pull requests and vote, their vote calls running await
\* by await: the vote runs.
InitVote ==
  /\ maxTokens = BigBudget
  /\ InitRunner(ToolAgents)

NextVote ==
  \E a \in AgentIds :
    \/ TickStart(a, MaxLogTools)
    \/ Render(a)
    \/ ModelRun(a, VoteShapes)
    \/ ExecTool(a)
    \/ \E k \in 1 .. 2 : VoteAwait(a, k)
    \/ AppendAgent(a)
    \/ AppendResults(a)
    \/ Check(a)

SpecVote == InitVote /\ [][NextVote]_vars

\* The responses of the model in the approval races: a pull request is created,
\* or the first pull request is approved.
ApproveShapes ==
  LET all == {<<CreatePR>>, <<ReviewPR(1, "approve")>>}
  IN {shape \in all :
        Len(pull_requests) + PendingCreates + Creates(shape) <= MaxReviewed}

\* The largest experiment, its review calls and its approval checks running
\* await by await: the approval races.
InitApprove ==
  /\ maxTokens = BigBudget
  /\ InitRunner(MaxAgents)

NextApprove ==
  \E a \in AgentIds :
    \/ TickStart(a, MaxLogPR)
    \/ Render(a)
    \/ ModelRun(a, ApproveShapes)
    \/ ExecToolAwait(a)
    \/ AppendAgent(a)
    \/ AppendResults(a)
    \/ CheckAwait(a)

SpecApprove == InitApprove /\ [][NextApprove]_vars

\* The approval races, and the human who accepts or rejects a pull request in
\* between: the disposal runs.
NextDispose ==
  \/ NextApprove
  \/ \E n \in 1 .. MaxReviewed : Accept(n) \/ Reject(n)

SpecDispose == InitApprove /\ [][NextDispose]_vars

\* Two agents with the smallest budget, sandbox commands only, their ticks
\* interleaved step by step: the runs of two logs.
InitTwo ==
  /\ maxTokens = MinBudget
  /\ InitRunner(ToolAgents)

NextTwo ==
  \E a \in AgentIds :
    \/ TickStart(a, MaxLogTools)
    \/ Render(a)
    \/ ModelRun(a, ComputerShapes)
    \/ ExecTool(a)
    \/ AppendAgent(a)
    \/ AppendResults(a)
    \/ Check(a)
    \/ Initialize(a)

SpecTwo == InitTwo /\ [][NextTwo]_vars

\* Two agents that create a pull request, review it or answer with text alone,
\* so that a tick opens a new turn after the tables have changed: the turn-start
\* runs.
TurnShapes ==
  LET all == {<<TextContent>>, <<CreatePR>>}
               \cup {<<ReviewPR(n, d)>> : n \in 1 .. MaxReviewed,
                                          d \in {"approve", "request_changes"}}
  IN {shape \in all :
        Len(pull_requests) + PendingCreates + Creates(shape) <= MaxReviewed}

InitTurn ==
  /\ maxTokens = BigBudget
  /\ InitRunner(ToolAgents)

NextTurn ==
  \/ \E a \in AgentIds :
       \/ TickStart(a, MaxLogTurn)
       \/ Render(a)
       \/ ModelRun(a, TurnShapes)
       \/ ExecTool(a)
       \/ AppendAgent(a)
       \/ AppendResults(a)
       \/ Check(a)
  \/ \E n \in 1 .. MaxReviewed : Accept(n) \/ Reject(n)

SpecTurn == InitTurn /\ [][NextTurn]_vars

\* The turn-start runs of an experiment with one agent.
InitSolo ==
  /\ maxTokens = BigBudget
  /\ InitRunner(1)

SpecSolo == InitSolo /\ [][NextTurn]_vars

\* ------------------------------------------------------------------- claims
Rendered(a) == a \in Agents /\ messagesForModel[a].ok
Loop(a) == contextPruning[a].lastAgentLoopStartIdx
Inner(a) == contextPruning[a].lastAgentLoopInnerStartIdx

PureTextUser(m) ==
  m.role = "user" /\ {m.content[k].type : k \in 1 .. Len(m.content)} \subseteq {"text"}

HasToolUse(m) ==
  m.role = "agent" /\ "tool_use" \in {m.content[k].type : k \in 1 .. Len(m.content)}

\* The ids of the parts of one type in a message.
IdsOf(m, type) ==
  {m.content[k].id : k \in {j \in 1 .. Len(m.content) : m.content[j].type = type}}

\* C1: every window renderForModel returns starts with a user message whose parts
\* are all text, also after the cursors have advanced.
C1_WindowStartsWithTurnStart ==
  \A a \in AgentIds :
    Rendered(a) =>
      /\ Len(messagesForModel[a].value) > 0
      /\ PureTextUser(messagesForModel[a].value[1])

\* A window was returned after the inner cursor had moved past a later loop start.
C1_Witness ==
  \E a \in AgentIds : Rendered(a) /\ Inner(a) > Loop(a) /\ Loop(a) > 0

\* C2: in every window renderForModel returns, each tool_result has a tool_use of
\* the same id in an earlier message of that window.
C2_ResultHasRequestInWindow ==
  \A a \in AgentIds :
    Rendered(a) =>
      LET w == messagesForModel[a].value
      IN \A p \in 1 .. Len(w) :
           \A id \in IdsOf(w[p], "tool_result") :
             \E q \in 1 .. p - 1 : id \in IdsOf(w[q], "tool_use")

\* A pruned window that holds the results of two requests.
C2_Witness ==
  \E a \in AgentIds :
    /\ Rendered(a)
    /\ Inner(a) > Loop(a)
    /\ \E p \in 1 .. Len(messagesForModel[a].value) :
         Cardinality(IdsOf(messagesForModel[a].value[p], "tool_result")) = 2

\* C3: in every state of a log, also after a tick that stopped between two of its
\* appends, each tool_result is preceded in the log by a tool_use of the same id.
C3_ResultHasRequestInLog ==
  \A a \in AgentIds :
    a \in Agents =>
      \A p \in 1 .. Len(messages[a]) :
        \A id \in IdsOf(messages[a][p], "tool_result") :
          \E q \in 1 .. p - 1 : id \in IdsOf(messages[a][q], "tool_use")

\* A log where a tick stopped after its agent message (a request without results)
\* and a later tick appended results.
C3_Witness ==
  \E a \in AgentIds :
    /\ a \in Agents
    /\ \E p \in 1 .. Len(messages[a]) - 1 :
         HasToolUse(messages[a][p]) /\ PureTextUser(messages[a][p + 1])
    /\ IdsOf(messages[a][Len(messages[a])], "tool_result") # {}

\* C4: a second call of renderForModel on the same log returns what the first
\* returned (the same window or the same error) and leaves both cursors alone.
C4_RenderIdempotent ==
  \A a \in AgentIds :
    (a \in Agents /\ messagesForModel[a] # NoRender) =>
      LET again == renderForModel(messages[a], contextPruning[a], maxTokens)
      IN /\ again.ok = messagesForModel[a].ok
         /\ again.code = messagesForModel[a].code
         /\ again.value = messagesForModel[a].value
         /\ again.cp = contextPruning[a]

\* The first call failed with the overflow error after it had advanced a cursor.
C4_Witness ==
  \E a \in AgentIds :
    /\ a \in Agents
    /\ messagesForModel[a] # NoRender
    /\ ~messagesForModel[a].ok
    /\ Inner(a) > 0

\* C5: on one Runner neither cursor ever decreases.
C5_CursorsMonotone ==
  [][\/ \E a \in AgentIds : Initialize(a)
     \/ \A a \in Agents :
          /\ contextPruning'[a].lastAgentLoopStartIdx >= Loop(a)
          /\ contextPruning'[a].lastAgentLoopInnerStartIdx >= Inner(a)]_vars

\* Both cursors have advanced, and the tick after it failed with the overflow error.
C5_Witness ==
  \E a \in AgentIds :
    /\ a \in Agents
    /\ Loop(a) > 0
    /\ Inner(a) > Loop(a)
    /\ tickResult[a].message = OverflowMessage

\* C6: the token count of the system prompt, the tool schemas and a returned
\* window never exceeds the budget of the model.
C6_WindowWithinBudget ==
  \A a \in AgentIds :
    Rendered(a) => tokens(messagesForModel[a].value) <= maxTokens

\* A pruned window that fills the budget exactly, about to be sent to the model.
C6_Witness ==
  \E a \in AgentIds :
    /\ Rendered(a)
    /\ pc[a] = "run"
    /\ Inner(a) > Loop(a)
    /\ tokens(messagesForModel[a].value) = maxTokens

\* No message from index start on is a loop start or an inner start.
ScanExhausts(msgs, start) ==
  \A i \in start .. Len(msgs) - 1 :
    ~PureTextUser(At(msgs, i)) /\ ~HasToolUse(At(msgs, i))

\* C7: when the window exceeds the budget and the scan reaches the end of the log,
\* render fails with the overflow error and the cursors stay where they were
\* before that scan.
C7_OverflowLeavesCursors ==
  \A a \in AgentIds :
    (a \in Agents /\ messagesForModel[a] # NoRender) =>
      LET cp == contextPruning[a]
          fails == ~messagesForModel[a].ok
      IN /\ fails => messagesForModel[a].at = cp
         /\ ( /\ tokens(window(messages[a], cp)) > maxTokens
              /\ ScanExhausts(messages[a], scanStart(cp)) )
            => ( /\ fails
                 /\ messagesForModel[a].code = "agent_loop_overflow_error"
                 /\ tickResult[a] = err("agent_loop_overflow_error", OverflowMessage, 0) )

\* Render failed on a scan that started at the inner cursor of a pruned loop and
\* passed over a message before it reached the end of the log.
C7_Witness ==
  \E a \in AgentIds :
    /\ a \in Agents
    /\ messagesForModel[a] # NoRender
    /\ ~messagesForModel[a].ok
    /\ Inner(a) > Loop(a)
    /\ Inner(a) + 1 < Len(messages[a])

\* The tick of agent a returns from its approval check in this step.
CheckReturns(a) ==
  a \in Agents /\ pc[a] = "check" /\ pc'[a] = "idle" /\ tickResult'[a] # Thrown

IsPause(r) == r.isErr /\ r.message = PauseMessage

ReviewsOf(i, decision) ==
  {r \in pr_reviews :
     r.pull_request = pull_requests[i].id /\ r.decision = decision}

\* Fully approved as the spec defines it, on the rows as they are now.
FullyApproved(i) ==
  /\ Cardinality(ReviewsOf(i, "approve")) >= agent_count - 1
  /\ ReviewsOf(i, "request_changes") = {}

SubmittedApproval(a, n) ==
  LET len == Len(messages[a])
  IN /\ len >= 2
     /\ messages[a][len - 1].role = "agent"
     /\ \E k \in 1 .. Len(messages[a][len - 1].content) :
          LET t == messages[a][len - 1].content[k]
          IN /\ t.type = "tool_use"
             /\ t.name = "pr-review_pull_request"
             /\ t.input = <<n, "approve">>
             /\ \E j \in 1 .. Len(messages[a][len].content) :
                  LET res == messages[a][len].content[j]
                  IN res.type = "tool_result" /\ res.id = t.id /\ ~res.isError

ApproversOtherThanAuthor(i) ==
  {r.reviewer : r \in {x \in ReviewsOf(i, "approve") :
                         x.reviewer # pull_requests[i].author}}

\* No tick returns the pause for a pull request that fewer than agent_count - 1
\* other agents approve.
NoEarlyPause(a) ==
  IsPause(tickResult'[a]) =>
    \A i \in 1 .. Len(pull_requests) :
      pull_requests[i].number = tickResult'[a].pr =>
        Cardinality(ApproversOtherThanAuthor(i)) >= agent_count - 1

FailureCodes ==
  {shiftContextPruning(<<newUserMessage(<<>>)>>,
                       [lastAgentLoopStartIdx |-> 0,
                        lastAgentLoopInnerStartIdx |-> 0]).code,
   "model_error", "tool_error", Thrown.code}

\* C10: the code of the pause a tick returns differs from the code of every
\* failure a tick returns, the overflow error of render among them.
C10_PauseCodeDistinct ==
  \A a \in AgentIds :
    (a \in Agents /\ IsPause(tickResult[a])) => tickResult[a].code \notin FailureCodes

\* The k-th call of the response of agent a.
Call(a, k) == ToolUses(message[a])[k]

\* The k-th call of the response of agent a goes on by one await in this step.
CallMoves(a, k) ==
  /\ a \in Agents
  /\ pc[a] = "tools" /\ pc'[a] = "tools"
  /\ k \in 1 .. Len(toolResults[a])
  /\ toolResults'[a][k] # toolResults[a][k]

\* The k-th call of the response of agent a returns its result in this step.
CallReturns(a, k) == CallMoves(a, k) /\ toolResults'[a][k].type = "tool_result"

IsReview(t) == t.name = "pr-review_pull_request"

\* The pull request a review call names exists and the caller is its author.
SelfReview(a, t) ==
  /\ IsReview(t)
  /\ \E i \in 1 .. Len(pull_requests) :
       pull_requests[i].number = t.input[1] /\ pull_requests[i].author = a

\* The pull request a review call names exists and another agent is its author.
ReviewOfAnother(a, t) ==
  /\ IsReview(t)
  /\ \E i \in 1 .. Len(pull_requests) :
       pull_requests[i].number = t.input[1] /\ pull_requests[i].author # a

\* The rows of reviewer a on the pull request numbered n.
RowsOf(a, n) ==
  {r \in pr_reviews :
     /\ r.reviewer = a
     /\ \E i \in 1 .. Len(pull_requests) :
          pull_requests[i].number = n /\ pull_requests[i].id = r.pull_request}

\* The results a log holds, with those of the calls that have just returned.
ResultsOf(a) ==
  {messages[a][p].content[j] :
     <<p, j>> \in {x \in (1 .. Len(messages[a])) \X (1 .. 2) :
                    /\ x[2] <= Len(messages[a][x[1]].content)
                    /\ messages[a][x[1]].content[x[2]].type = "tool_result"}}
  \cup {toolResults[a][k] :
          k \in {j \in 1 .. Len(toolResults[a]) : toolResults[a][j].type = "tool_result"}}

AloneOnItsPR(a, k) ==
  \A j \in 1 .. Len(toolResults[a]) :
    (j # k /\ IsReview(Call(a, j))) => Call(a, j).input[1] # Call(a, k).input[1]

\* C12: a review call that starts after the reviewer's earlier calls on the same
\* pull request have returned succeeds and leaves exactly one row of that
\* reviewer on that pull request, holding the decision of this call.
C12_SecondReviewReplacesFirst ==
  [][\A a \in AgentIds : \A k \in 1 .. 2 :
       (CallReturns(a, k) /\ ReviewOfAnother(a, Call(a, k)) /\ AloneOnItsPR(a, k)) =>
         /\ ~toolResults'[a][k].isError
         /\ \E r \in pr_reviews' :
              /\ r.decision = Call(a, k).input[2]
              /\ {x \in pr_reviews' :
                    x.pull_request = r.pull_request /\ x.reviewer = a} = {r}
              /\ \E i \in 1 .. Len(pull_requests) :
                   /\ pull_requests[i].number = Call(a, k).input[1]
                   /\ pull_requests[i].id = r.pull_request]_vars

\* A reviewer's second tick updated the review of its first tick with another
\* decision: the row holds the decision of the second call.
C12_Witness ==
  \E a \in AgentIds :
    /\ a \in Agents
    /\ Len(messages[a]) = 5
    /\ Len(messages[a][2].content) = 1 /\ Len(messages[a][4].content) = 1
    /\ IsReview(messages[a][2].content[1]) /\ IsReview(messages[a][4].content[1])
    /\ messages[a][2].content[1].input[2] # messages[a][4].content[1].input[2]
    /\ messages[a][3].content[1].content = "Review submitted"
    /\ messages[a][5].content[1].content = "Review updated"
    /\ \A r \in RowsOf(a, 1) : r.decision = messages[a][4].content[1].input[2]
    /\ Cardinality(RowsOf(a, 1)) = 1

\* C13: whatever the interleaving, every review call on a pull request of another
\* agent returns a success payload, and every (pull_request, reviewer) pair has at
\* most one row.
C13_ReviewUpsertAtomic ==
  \A a \in AgentIds :
    a \in Agents =>
      /\ \A res \in ResultsOf(a) :
           IsReview(res) => res.content # "Error executing tool"
      /\ \A r \in pr_reviews :
           findByPRAndReviewer(r.pull_request, r.reviewer) = {r}

IsCreate(t) == t.name = "pr-create_pull_request"

\* C14: successive create_pull_request calls succeed and return 1, 2, 3, ...: each
\* returns one more than the number of pull requests created before it, a number
\* no call has returned before, whether the earlier pull requests are open,
\* merged or closed.
C14_NumbersIncrease ==
  [][\A a \in AgentIds : \A k \in 1 .. 2 :
       (CallReturns(a, k) /\ IsCreate(Call(a, k))) =>
         /\ ~toolResults'[a][k].isError
         /\ issued' = Append(issued, Len(issued) + 1)
         /\ \A i \in 1 .. Len(issued) : issued[i] = i
         /\ pull_requests' =
              Append(pull_requests,
                     [id |-> Len(pull_requests) + 1, number |-> Len(issued) + 1,
                      author |-> a, status |-> "open"])]_vars

\* Pull request #2 has been created while #1 was merged or closed.
C14_Witness ==
  /\ issued = <<1, 2>>
  /\ Len(pull_requests) = 2
  /\ pull_requests[1].status # "open"
  /\ pull_requests[2].status = "open"
  /\ \E a \in AgentIds :
       /\ a \in Agents
       /\ pc[a] = "tools"
       /\ Len(ToolUses(message[a])) = 1
       /\ toolResults[a] = <<ToolResult(Call(a, 1), FALSE, "Pull request created successfully!")>>

\* C15: a number create_pull_request has given out is never given out again,
\* also when the pull request that held it has been deleted.
C15_NumberNeverReassigned ==
  \A i \in 1 .. Len(issued) : \A j \in 1 .. Len(issued) :
    issued[i] = issued[j] => i = j

\* C16: whatever the interleaving, every create_pull_request call creates a pull
\* request, and the pull requests stored have numbers that differ pairwise.
C16_ConcurrentCreatesDistinct ==
  /\ \A a \in AgentIds :
       a \in Agents =>
         \A res \in ResultsOf(a) : IsCreate(res) => ~res.isError
  /\ \A i \in 1 .. Len(pull_requests) : \A j \in 1 .. Len(pull_requests) :
       pull_requests[i].number = pull_requests[j].number => i = j

Last(msgs) == msgs[Len(msgs)]

\* The step is the end of a tick by a rejected await of the tick itself.
Rejected(a) == pc'[a] = "idle" /\ tickResult'[a] = Thrown

HasError(results) ==
  \E k \in 1 .. Len(results) : results[k].type = "tool_result" /\ results[k].isError

\* C17: a tool call that throws gives an error result for its own request and
\* leaves the other calls of the response as they are; the tick does not fail on
\* it: it goes on only when every call has its result, to append the agent
\* message and then the message of all the results.
C17_ThrownToolIsolated ==
  [][\A a \in AgentIds :
       (/\ a \in Agents
        /\ pc[a] \in {"tools", "results"}
        /\ HasError(toolResults[a]) \/ HasError(toolResults'[a])
        /\ ~Rejected(a)) =>
         /\ pc'[a] # "idle"
         /\ tickResult'[a] = tickResult[a]
         /\ (pc[a] = "tools" /\ pc'[a] = "tools") =>
              \E k \in 1 .. Len(toolResults[a]) :
                /\ toolResults[a][k].type = "pending"
                /\ toolResults'[a][k].type = "tool_result"
                /\ toolResults'[a][k].id = Call(a, k).id
                /\ toolResults'[a][k].content = "Error executing tool"
                     => toolResults'[a][k].isError
                /\ \A j \in 1 .. Len(toolResults[a]) :
                     j # k => toolResults'[a][j] = toolResults[a][j]
         /\ (pc[a] = "tools" /\ pc'[a] # "tools") =>
              /\ AllDone(toolResults[a])
              /\ pc'[a] = "results"
              /\ toolResults'[a] = toolResults[a]
              /\ Len(messages'[a]) = Len(messages[a]) + 1
              /\ Last(messages'[a]).role = "agent"
              /\ Last(messages'[a]).content = message[a]
         /\ pc[a] = "results" =>
              /\ pc'[a] = "check"
              /\ Len(messages'[a]) = Len(messages[a]) + 1
              /\ Last(messages'[a]).content = toolResults[a]
              /\ Len(toolResults[a]) = Len(ToolUses(Last(messages[a]).content))]_vars

\* A tick has appended the results of a response of two calls: the first call
\* threw, the second returned its output.
C17_Witness ==
  \E a \in AgentIds :
    /\ a \in Agents
    /\ pc[a] = "idle"
    /\ tickResult[a] = ok
    /\ Len(messages[a]) >= 3
    /\ Len(Last(messages[a]).content) = 2
    /\ Last(messages[a]).content[1].content = "Error executing tool"
    /\ Last(messages[a]).content[1].isError
    /\ Last(messages[a]).content[2].content = "output"
    /\ ~Last(messages[a]).content[2].isError

\* C18: for a response of k >= 1 tool_use parts the tick appends, after the agent
\* message, one user message of k tool_result parts, the i-th with the id and the
\* name of the i-th tool_use, in whatever order the calls finished; for k = 0 it
\* appends none.
C18_ResultsInRequestOrder ==
  [][\A a \in AgentIds :
       (a \in Agents /\ ~Rejected(a)) =>
         /\ (pc[a] = "tools" /\ pc'[a] # "tools") =>
              pc'[a] = (IF Len(ToolUses(message[a])) >= 1 THEN "results" ELSE "check")
         /\ pc[a] = "results" =>
              LET uses == ToolUses(Last(messages[a]).content)
                  m == Last(messages'[a])
              IN /\ pc'[a] = "check"
                 /\ messages'[a] = Append(messages[a], m)
                 /\ m.role = "user"
                 /\ Len(uses) >= 1
                 /\ Len(m.content) = Len(uses)
                 /\ \A i \in 1 .. Len(uses) :
                      /\ m.content[i].type = "tool_result"
                      /\ m.content[i].id = uses[i].id
                      /\ m.content[i].name = uses[i].name
         /\ pc[a] = "check" => messages'[a] = messages[a]]_vars

\* The log holds the two results of a response of two calls, and in the tick
\* after it the second call of the response has finished before the first.
C18_Witness ==
  \E a \in AgentIds :
    /\ a \in Agents
    /\ pc[a] = "tools"
    /\ Len(toolResults[a]) = 2
    /\ toolResults[a][1].type = "pending"
    /\ toolResults[a][2].type = "tool_result"
    /\ Len(Last(messages[a]).content) = 2
    /\ Last(messages[a]).content[1].type = "tool_result"
    /\ Last(messages[a]).content[2].type = "tool_result"
    /\ Last(messages[a]).content[1].id < Last(messages[a]).content[2].id

\* C19: a tool_use whose name no client lists gets, from a call that returns, an
\* error result with the id and the name of the request; no table changes, and
\* the tick goes on to its approval check as after any other call.
C19_UnknownToolIsError ==
  [][\A a \in AgentIds :
       /\ \A k \in 1 .. 2 :
            (CallMoves(a, k) /\ Call(a, k).name \notin ToolNames) =>
              /\ toolResults'[a][k].type = "tool_result"
              /\ toolResults'[a][k].isError
              /\ toolResults'[a][k].id = Call(a, k).id
              /\ toolResults'[a][k].name = Call(a, k).name
              /\ pull_requests' = pull_requests
              /\ pr_reviews' = pr_reviews
              /\ tickResult'[a] = tickResult[a]
       /\ (a \in Agents /\ pc[a] \in {"tools", "results", "check"} /\ pc'[a] = "idle") =>
            (pc[a] = "check" /\ tickResult'[a] = checkPRApprovals)]_vars

\* A tick whose response called a tool that does not exist together with
\* create_pull_request has appended both results and returned success.
C19_Witness ==
  \E a \in AgentIds :
    /\ a \in Agents
    /\ pc[a] = "idle"
    /\ tickResult[a] = ok
    /\ Len(messages[a]) = 3
    /\ Len(messages[a][3].content) = 2
    /\ messages[a][3].content[1].content = "No MCP client found to execute tool"
    /\ messages[a][3].content[1].isError
    /\ messages[a][3].content[1].id = messages[a][2].content[1].id
    /\ messages[a][3].content[2].content = "Pull request created successfully!"

\* The k-th call of the response of agent a waits for the answer to question q.
Waiting(a, k, q) ==
  /\ a \in Agents
  /\ pc[a] = "tools"
  /\ k \in 1 .. Len(toolResults[a])
  /\ toolResults[a][k].type = "running"
  /\ toolResults[a][k].pr = q

Returned(a, k) ==
  /\ a \in Agents
  /\ pc[a] = "tools"
  /\ k \in 1 .. Len(toolResults[a])
  /\ toolResults[a][k].type = "tool_result"

Unanswered(q) == q \in 1 .. Len(user_questions) /\ ~user_questions[q].answer

\* C20: a call of ask_user_question whose question gets no answer returns, and
\* not before timeout_seconds have passed; what it returns is the timeout notice
\* with isError = false for its request; the tick goes on to its approval check,
\* and the question is left with the status timeout.
C20_AskTimesOut ==
  /\ [][\A a \in AgentIds : \A k \in 1 .. 2 :
          /\ (CallReturns(a, k) /\ IsAsk(Call(a, k))
                /\ ~user_questions'[toolResults[a][k].pr].answer) =>
               /\ toolResults'[a][k] = ToolResult(Call(a, k), FALSE, TimeoutNotice)
               /\ toolResults[a][k].n >= Call(a, k).input[1]
               /\ user_questions'[toolResults[a][k].pr].status = "timeout"
               /\ tickResult'[a] = tickResult[a]
          /\ (a \in Agents /\ pc[a] \in {"tools", "results", "check"} /\ pc'[a] = "idle") =>
               (pc[a] = "check" /\ tickResult'[a] = ok)]_vars
  /\ [](\A q \in QuestionIds :
          (Unanswered(q) /\ ~\E a \in AgentIds : \E k \in 1 .. 2 : Waiting(a, k, q)) =>
            user_questions[q].status = "timeout")
  /\ \A a \in AgentIds : \A k \in 1 .. 2 : \A q \in QuestionIds :
       Waiting(a, k, q) ~> (Returned(a, k) \/ ~Unanswered(q))

\* A tick has asked a question with the longest timeout, no answer came, and the
\* tick has appended the timeout notice and returned success.
C20_Witness ==
  \E a \in AgentIds :
    /\ a \in Agents
    /\ pc[a] = "idle"
    /\ tickResult[a] = ok
    /\ Len(messages[a]) = 3
    /\ Len(messages[a][2].content) = 1
    /\ messages[a][2].content[1].input = <<MaxTimeout>>
    /\ messages[a][3].content[1].content = TimeoutNotice
    /\ ~messages[a][3].content[1].isError
    /\ user_questions = <<[agent |-> a, status |-> "timeout", answer |-> FALSE]>>

\* The question q of the k-th call of agent a holds an answer while fewer than
\* timeout_seconds have passed since the call stored it.
AnsweredInTime(a, k, q) ==
  /\ Waiting(a, k, q)
  /\ IsAsk(Call(a, k))
  /\ user_questions[q].answer
  /\ toolResults[a][k].n < Call(a, k).input[1]

\* The question q has ended with the status timeout.
TimedOut(q) == q \in 1 .. Len(user_questions) /\ user_questions[q].status = "timeout"

\* The k-th call of agent a has returned the answer of the user.
ReturnedAnswer(a, k) ==
  Returned(a, k) /\ toolResults[a][k].content = "User answered"

\* C21: once the answer to a question is recorded before the timeout of its call
\* has elapsed, the question never gets the status timeout, and the call returns
\* the answer.
C21_AnswerInTimeReturned ==
  \A a \in AgentIds : \A k \in 1 .. 2 : \A q \in QuestionIds :
    /\ [](AnsweredInTime(a, k, q) => [](~TimedOut(q)))
    /\ AnsweredInTime(a, k, q) ~> ReturnedAnswer(a, k)

\* The votes of agent a.
VotesOf(a, votes) == {s \in votes : s.agent = a}

\* C22: every vote_for_solution call that succeeds leaves exactly one vote of its
\* agent, for the pull request the call names, and the votes of the other agents
\* as they were; nothing else changes a vote, and no agent ever has two.
C22_OneVotePerAgent ==
  [][/\ \A a \in AgentIds : \A k \in 1 .. 2 :
          (CallReturns(a, k) /\ IsVote(Call(a, k)) /\ ~toolResults'[a][k].isError) =>
            /\ \E i \in 1 .. Len(pull_requests) :
                 /\ pull_requests[i].number = Call(a, k).input[1]
                 /\ VotesOf(a, solutions') =
                      {[agent |-> a, pull_request |-> pull_requests[i].id]}
            /\ \A b \in Agents \ {a} : VotesOf(b, solutions') = VotesOf(b, solutions)
     /\ solutions' # solutions =>
          \E a \in AgentIds : \E k \in 1 .. 2 :
            CallReturns(a, k) /\ IsVote(Call(a, k)) /\ ~toolResults'[a][k].isError
     /\ \A a \in Agents : Cardinality(VotesOf(a, solutions')) <= 1]_vars

\* An agent has voted in two ticks, for one pull request and then for another,
\* while the other agent has a vote: its one vote is for the second.
C22_Witness ==
  \E a \in AgentIds :
    /\ a \in Agents
    /\ Len(messages[a]) = 5
    /\ Len(messages[a][2].content) = 1 /\ Len(messages[a][4].content) = 1
    /\ IsVote(messages[a][2].content[1]) /\ IsVote(messages[a][4].content[1])
    /\ messages[a][2].content[1].input # messages[a][4].content[1].input
    /\ ~messages[a][3].content[1].isError /\ ~messages[a][5].content[1].isError
    /\ \E i \in 1 .. Len(pull_requests) :
         /\ pull_requests[i].number = messages[a][4].content[1].input[1]
         /\ VotesOf(a, solutions) = {[agent |-> a, pull_request |-> pull_requests[i].id]}
    /\ Cardinality(solutions) = 2

\* C23: the status of a pull request changes only from open to merged or from
\* open to closed; a pull request that is merged or closed keeps its status,
\* also when the accept or the reject endpoint is called on it.
C23_StatusTerminal ==
  [][\A i \in 1 .. Len(pull_requests) :
       (i <= Len(pull_requests') /\ pull_requests'[i].id = pull_requests[i].id
          /\ pull_requests'[i].status # pull_requests[i].status) =>
         /\ pull_requests[i].status = "open"
         /\ pull_requests'[i].status \in {"merged", "closed"}]_vars

\* The call of the model by the tick of agent a returns, in this step, a
\* response without content.
EmptyResponse(a) ==
  /\ a \in Agents
  /\ pc[a] = "run" /\ pc'[a] # "run"
  /\ ~tickResult'[a].isErr
  /\ message'[a] = <<>>

\* The tick ends on the empty response: it returns success, and it leaves the
\* log, the calls and the tables as they were when the model was called.
SkipsSilently(a) ==
  /\ pc'[a] = "idle"
  /\ tickResult'[a] = ok
  /\ messages' = messages
  /\ toolResults' = toolResults
  /\ <<pull_requests, pr_reviews, solutions, user_questions>>' =
       <<pull_requests, pr_reviews, solutions, user_questions>>

\* The statement of C24 as written: a tick whose model response is empty returns
\* success, executes no tool, and has appended no message at all.
C24_EmptyResponseAppendsNothing ==
  [][\A a \in AgentIds :
       EmptyResponse(a) => (SkipsSilently(a) /\ ~newMessage[a])]_vars

\* C24 (amended): a tick whose model response is empty returns success, executes
\* no tool and appends no agent message and no message of tool results; the one
\* message it may have appended is the turn-start user message it pushed before
\* it called the model.
C24_EmptyResponseSkipped ==
  [][\A a \in AgentIds :
       /\ EmptyResponse(a) =>
            /\ SkipsSilently(a)
            /\ newMessage[a] => PureTextUser(Last(messages[a]))
       /\ (a \in Agents /\ pc[a] \in {"render", "run"}) => messages'[a] = messages[a]
       /\ (a \in Agents /\ pc[a] = "idle" /\ pc'[a] = "render") =>
            \/ messages'[a] = messages[a] /\ ~newMessage'[a]
            \/ /\ newMessage'[a]
               /\ Len(messages'[a]) = Len(messages[a]) + 1
               /\ SubSeq(messages'[a], 1, Len(messages[a])) = messages[a]
               /\ PureTextUser(Last(messages'[a]))]_vars

\* After a tick that appended an agent message, a tick has pushed a turn-start
\* message, got an empty response and returned success.
C24_Witness ==
  \E a \in AgentIds :
    /\ a \in Agents
    /\ pc[a] = "idle"
    /\ tickResult[a] = ok
    /\ Len(messages[a]) >= 3
    /\ PureTextUser(Last(messages[a]))
    /\ messages[a][Len(messages[a]) - 1].role = "agent"

\* The tick of agent a returns an error in this step, before it has a response
\* of the model: render has failed, or the call of the model has.
FailsBeforeResponse(a) ==
  /\ a \in Agents
  /\ pc[a] \in {"render", "run"}
  /\ pc'[a] = "idle"
  /\ tickResult'[a].isErr
  /\ tickResult'[a] # Thrown

\* No call of the response of agent a has run: there is no response.
NoToolRun(a, results) == results[a] = <<>>

\* C25: a tick that fails before it has a response of the model, render having
\* overflowed or the call of the model having failed, returns that error,
\* executes no tool and appends no agent message and no message of tool results.
C25_EarlyFailureAppendsNothing ==
  [][\A a \in AgentIds :
       /\ FailsBeforeResponse(a) =>
            /\ pc[a] = "render" =>
                 /\ ~messagesForModel'[a].ok
                 /\ tickResult'[a] = err(messagesForModel'[a].code, OverflowMessage, 0)
                 /\ tickResult'[a].code = "agent_loop_overflow_error"
            /\ pc[a] = "run" => tickResult'[a].code = "model_error"
            /\ messages' = messages
            /\ NoToolRun(a, toolResults) /\ NoToolRun(a, toolResults')
            /\ <<pull_requests, pr_reviews, solutions, user_questions>>' =
                 <<pull_requests, pr_reviews, solutions, user_questions>>
       /\ (a \in Agents /\ pc'[a] \in {"render", "run"}) =>
            /\ NoToolRun(a, toolResults')
            /\ \A p \in Len(messages[a]) + 1 .. Len(messages'[a]) :
                 PureTextUser(messages'[a][p])
            /\ SubSeq(messages'[a], 1, Len(messages[a])) = messages[a]]_vars

\* After a tick that appended a response and its results, the call of the model
\* of the next tick has failed: the log still ends with those results.
C25_Witness ==
  \E a \in AgentIds :
    /\ a \in Agents
    /\ pc[a] = "idle"
    /\ tickResult[a] = err("model_error", "", 0)
    /\ Len(messages[a]) >= 3
    /\ IdsOf(Last(messages[a]), "tool_result") # {}
    /\ toolResults[a] = <<>>

\* The tick of agent a that submitted an approval of pull request number n has
\* returned success.
ApprovedAndWentOn(a, n) ==
  /\ a \in Agents
  /\ pc[a] = "idle"
  /\ tickResult[a] = ok
  /\ SubmittedApproval(a, n)

\* The agents with an approve row on pull request i.
Approvers(i) == {r.reviewer : r \in ReviewsOf(i, "approve")}

\* C26: when an open pull request is fully approved and two agents or more have
\* approved it, the ticks that submitted these approvals have not all returned
\* success, however their steps interleaved: the tick whose approval was stored
\* last at least has returned the pause. With two approvers, one of the two
\* ticks at least has.
C26_OneApproverPauses ==
  \A i \in OpenPRs :
    (FullyApproved(i) /\ Cardinality(Approvers(i)) >= 2) =>
      \E a \in Approvers(i) :
        ~ApprovedAndWentOn(a, pull_requests[i].number)

\* One approver's tick read the approvals before the other's review was stored
\* and returned success; the other's tick returned the pause.
C26_Witness ==
  \E a \in AgentIds : \E b \in AgentIds : \E i \in OpenPRs :
    /\ a # b
    /\ agent_count >= 3
    /\ FullyApproved(i)
    /\ ApprovedAndWentOn(a, pull_requests[i].number)
    /\ b \in Agents
    /\ pc[b] = "idle"
    /\ SubmittedApproval(b, pull_requests[i].number)
    /\ IsPause(tickResult[b])

\* The approval check of agent a reads its list of pull requests in this step.
ReadsList(a) == a \in Agents /\ pc[a] = "check" /\ checking[a] = NoCheck

\* The pull requests the approval check of agent a has still to look at.
ToCheck(a, check) == {check[a].prs[k] : k \in 1 .. Len(check[a].prs)}

C28_EveryAgentPauses ==
  [][\A a \in AgentIds :
       (CheckReturns(a) /\ \E i \in OpenPRs : FullyApproved(i)) =>
         /\ IsPause(tickResult'[a])
         /\ tickResult'[a].code = checkPRApprovals.code]_vars

\* In an experiment of three agents the tick of an approver has returned the
\* pause for a pull request, and so has the tick of its author, who has no
\* review of it.
C28_Witness ==
  \E a \in AgentIds : \E b \in AgentIds : \E i \in OpenPRs :
    /\ a \in Agents /\ b \in Agents
    /\ agent_count = 3
    /\ pull_requests[i].author = a
    /\ IsPause(tickResult[a]) /\ tickResult[a].pr = pull_requests[i].number
    /\ b # a
    /\ SubmittedApproval(b, pull_requests[i].number)
    /\ IsPause(tickResult[b]) /\ tickResult[b].pr = pull_requests[i].number

\* C29: a log only grows at its end, and every message a step appends to it has
\* a position greater than the position of every message before it: the
\* positions of a log are unique and increase in the order of the appends.
C29_PositionsIncrease ==
  [][\A a \in AgentIds :
       a \in Agents =>
         /\ Len(messages'[a]) >= Len(messages[a])
         /\ SubSeq(messages'[a], 1, Len(messages[a])) = messages[a]
         /\ \A q \in Len(messages[a]) + 1 .. Len(messages'[a]) :
              \A p \in 1 .. q - 1 :
                messages'[a][p].position < messages'[a][q].position]_vars

\* A log of a turn-start message, a response with its results, a response whose
\* tick stopped before its results were appended, and the turn-start message of
\* the tick after it.
C29_Witness ==
  \E a \in AgentIds :
    /\ a \in Agents
    /\ Len(messages[a]) = 5
    /\ PureTextUser(messages[a][1])
    /\ HasToolUse(messages[a][2])
    /\ IdsOf(messages[a][3], "tool_result") # {}
    /\ HasToolUse(messages[a][4])
    /\ PureTextUser(messages[a][5])
    /\ \A p \in 1 .. 4 : messages[a][p].position < messages[a][p + 1].position

\* What the Runner of agent a holds, and where its tick is.
Local(a) ==
  <<messages[a], contextPruning[a], pc[a], messagesForModel[a], message[a],
    toolResults[a], tickResult[a], newMessage[a], checking[a]>>

\* C30: a step of the tick of one agent, or of its Runner.initialize, leaves the
\* log, the cursors and the tick of every other agent as they were; what the
\* agents share is the tables only.
C30_LogsIndependent ==
  [][\A a \in AgentIds :
       (a \in Agents /\ Local(a)' # Local(a)) =>
         /\ \A b \in Agents \ {a} :
              /\ messages'[b] = messages[b]
              /\ contextPruning'[b] = contextPruning[b]
              /\ Local(b)' = Local(b)
         /\ <<agent_count, maxTokens>>' = <<agent_count, maxTokens>>]_vars

\* One agent has moved both its cursors while the other, whose log is as long,
\* is within a tick with its cursors where they began.
C30_Witness ==
  \E a \in AgentIds : \E b \in AgentIds :
    /\ a \in Agents /\ b \in Agents
    /\ a # b
    /\ Inner(a) > 0
    /\ Inner(b) = 0 /\ Loop(b) = 0
    /\ Len(messages[b]) >= Len(messages[a])
    /\ pc[b] = "run"

\* The tick of agent a opens a turn in this step: it pushes a turn-start message.
OpensTurn(a) ==
  /\ a \in Agents
  /\ pc[a] = "idle"
  /\ pc'[a] = "render"
  /\ Len(messages'[a]) = Len(messages[a]) + 1

Listed(list) == {list[k] : k \in 1 .. Len(list)}

\* C31: the turn-start message of agent a lists as its own the open pull
\* requests a authored, and as to review the open pull requests of other
\* authors that a has not reviewed.
C31_TurnStartLists ==
  [][\A a \in AgentIds :
       OpensTurn(a) =>
         /\ Listed(myOpenPRs(a)) = {i \in OpenPRs : pull_requests[i].author = a}
         /\ Listed(pendingReviewPRs(a)) =
              {i \in OpenPRs :
                 /\ pull_requests[i].author # a
                 /\ findByPRAndReviewer(pull_requests[i].id, a) = {}}]_vars

\* A tick of agent a begins in this step and goes as far as its call of
\* renderForModel.
TickReachesRender(a) == a \in Agents /\ pc[a] = "idle" /\ pc'[a] = "render"

\* A tick of agent a begins in this step and returns the error of this.tools().
TickFailsOnTools(a) ==
  /\ a \in Agents
  /\ pc[a] = "idle"
  /\ pc'[a] = "idle"
  /\ tickResult'[a] # tickResult[a]
  /\ tickResult'[a].code = "tool_error"

\* The log of agent a is empty or ends with an agent message.
EndsTurn(a) == Len(messages[a]) = 0 \/ Last(messages[a]).role = "agent"

\* The step appends one message to the log of agent a, a turn-start message.
AppendsTurnStart(a) ==
  /\ Len(messages'[a]) = Len(messages[a]) + 1
  /\ SubSeq(messages'[a], 1, Len(messages[a])) = messages[a]
  /\ PureTextUser(Last(messages'[a]))

\* C32 as stated: every tick appends a turn-start message exactly when it begins
\* on a log that is empty or ends with an agent message.
C32_TurnStartIffNeeded ==
  [][\A a \in AgentIds :
       (TickReachesRender(a) \/ TickFailsOnTools(a)) =>
         /\ AppendsTurnStart(a) <=> EndsTurn(a)
         /\ ~EndsTurn(a) => messages'[a] = messages[a]]_vars

\* C32: a tick that has its list of tools appends a turn-start message exactly
\* when it begins on a log that is empty or ends with an agent message, and
\* otherwise leaves the log as it is before it renders; a tick whose listing of
\* the tools fails appends nothing; no later step of a tick appends a
\* turn-start message.
C32_TurnStartIffNeededWithTools ==
  [][\A a \in AgentIds :
       /\ TickReachesRender(a) =>
            /\ AppendsTurnStart(a) <=> EndsTurn(a)
            /\ ~EndsTurn(a) => messages'[a] = messages[a]
       /\ TickFailsOnTools(a) => messages'[a] = messages[a]
       /\ (a \in Agents /\ pc[a] # "idle") =>
            \A p \in Len(messages[a]) + 1 .. Len(messages'[a]) :
              ~PureTextUser(messages'[a][p])]_vars

\* A tick that began on a log ending with an agent message has pushed a
\* turn-start message and is about to render.
C32_Witness ==
  \E a \in AgentIds :
    /\ a \in Agents
    /\ pc[a] = "render"
    /\ newMessage[a]
    /\ Len(messages[a]) >= 2
    /\ messages[a][Len(messages[a]) - 1].role = "agent"
    /\ PureTextUser(Last(messages[a]))

\* The tick of agent a, now at its approval check, has created a pull request:
\* the results it appended hold the success of create_pull_request.
CreatedInTick(a) ==
  /\ a \in Agents
  /\ pc[a] = "check"
  /\ Len(messages[a]) >= 1
  /\ \E k \in 1 .. Len(Last(messages[a]).content) :
       LET res == Last(messages[a]).content[k]
       IN /\ res.type = "tool_result"
          /\ ~res.isError
          /\ res.content = "Pull request created successfully!"

Unblocked(i) == ~hasRequestedChanges(pull_requests[i])

\* C33: when agent_count - 1 <= 0, an open pull request with no request_changes
\* review is fully approved with no approval at all: the approval check returns
\* the pause exactly when there is one, and so does the check of the tick that
\* created one that is still open.
C33_SoloPauses ==
  [][\A a \in AgentIds :
       (CheckReturns(a) /\ agent_count - 1 <= 0) =>
         /\ \A i \in OpenPRs :
              Unblocked(i) =>
                /\ fullApproval(pull_requests[i])
                /\ getApprovalCount(pull_requests[i]) = 0
         /\ IsPause(tickResult'[a]) <=> (\E i \in OpenPRs : Unblocked(i))
         /\ (CreatedInTick(a) /\ \E i \in OpenPRs : pull_requests[i].author = a) =>
              /\ IsPause(tickResult'[a])
              /\ \E i \in OpenPRs : tickResult'[a].pr = pull_requests[i].number]_vars

\* The only agent of an experiment has created a pull request, nobody has
\* reviewed it, and its tick has returned the pause for it.
C33_Witness ==
  /\ agent_count = 1
  /\ pc[0] = "idle"
  /\ IsPause(tickResult[0])
  /\ pr_reviews = {}
  /\ \E i \in OpenPRs :
       /\ pull_requests[i].author = 0
       /\ tickResult[0].pr = pull_requests[i].number
  /\ Len(messages[0]) = 3
  /\ \E k \in 1 .. Len(Last(messages[0]).content) :
       Last(messages[0]).content[k].content = "Pull request created successfully!"

\* C34: once the log of an agent holds a message, its cursors satisfy
\* lastAgentLoopStartIdx <= lastAgentLoopInnerStartIdx < length of the log, and
\* before that both are 0; so the assertion of shiftContextPruning never fails
\* and the message at lastAgentLoopStartIdx that render puts in front exists.
C34_CursorsWithinLog ==
  \A a \in AgentIds :
    a \in Agents =>
      /\ Len(messages[a]) = 0 => (Loop(a) = 0 /\ Inner(a) = 0)
      /\ Len(messages[a]) > 0 =>
           /\ 0 <= Loop(a)
           /\ Loop(a) <= Inner(a)
           /\ Inner(a) < Len(messages[a])
      /\ messagesForModel[a].code \notin {"assertion_error", "type_error"}
      /\ tickResult[a].code \notin {"assertion_error", "type_error"}

\* Render has advanced both cursors to the last message of the log, the
\* turn-start message the tick had just pushed.
C34_Witness ==
  \E a \in AgentIds :
    /\ Rendered(a)
    /\ pc[a] = "run"
    /\ Inner(a) > 0
    /\ Loop(a) = Inner(a)
    /\ Inner(a) = Len(messages[a]) - 1

\* The cursors renderForModel goes through on the log msgs from the cursors cp:
\* cp itself and the cursors after each advance.
RECURSIVE Visited(_, _, _)
Visited(msgs, cp, max) ==
  IF tokens(window(msgs, cp)) > max /\ shiftContextPruning(msgs, cp).ok
  THEN {cp} \cup Visited(msgs, shiftContextPruning(msgs, cp).cp, max)
  ELSE {cp}

\* The loop start is a turn-start message and the latest one up to the inner
\* start, which is an agent message with a tool_use when it is past the loop
\* start.
WellPlaced(msgs, cp) ==
  /\ cp.lastAgentLoopStartIdx < Len(msgs)
  /\ cp.lastAgentLoopInnerStartIdx < Len(msgs)
  /\ PureTextUser(At(msgs, cp.lastAgentLoopStartIdx))
  /\ \A i \in cp.lastAgentLoopStartIdx + 1 .. cp.lastAgentLoopInnerStartIdx :
       ~PureTextUser(At(msgs, i))
  /\ cp.lastAgentLoopInnerStartIdx > cp.lastAgentLoopStartIdx =>
       HasToolUse(At(msgs, cp.lastAgentLoopInnerStartIdx))

\* C35: in every state with a log that is not empty, and after every advance of
\* a render, the message at the loop start is a turn-start message, no
\* turn-start message lies after it up to the inner start, and an inner start
\* past the loop start is an agent message with a tool_use; an advance that
\* stops on a turn-start message leaves both cursors on it.
C35_CursorsWellPlaced ==
  \A a \in AgentIds :
    (a \in Agents /\ Len(messages[a]) > 0) =>
      /\ WellPlaced(messages[a], contextPruning[a])
      /\ pc[a] = "render" =>
           \A cp \in Visited(messages[a], contextPruning[a], maxTokens) :
             /\ WellPlaced(messages[a], cp)
             /\ PureTextUser(At(messages[a], cp.lastAgentLoopInnerStartIdx)) =>
                  cp.lastAgentLoopStartIdx = cp.lastAgentLoopInnerStartIdx

\* Render is about to advance twice: onto the turn-start message of a later
\* loop, then onto an agent message with a tool_use within that loop.
C35_Witness ==
  \E a \in AgentIds :
    /\ a \in Agents
    /\ pc[a] = "render"
    /\ \E cp \in Visited(messages[a], contextPruning[a], maxTokens) :
         /\ cp.lastAgentLoopStartIdx > Inner(a)
         /\ cp.lastAgentLoopInnerStartIdx = cp.lastAgentLoopStartIdx
         /\ \E cq \in Visited(messages[a], contextPruning[a], maxTokens) :
              /\ cq.lastAgentLoopStartIdx = cp.lastAgentLoopStartIdx
              /\ cq.lastAgentLoopInnerStartIdx > cq.lastAgentLoopStartIdx

\* The roles of the log msgs alternate, user first.
Alternates(msgs) ==
  /\ Len(msgs) > 0 => msgs[1].role = "user"
  /\ \A i \in 1 .. Len(msgs) - 1 : msgs[i].role # msgs[i + 1].role

\* From coinciding cursors cp the scan starts at + 2: the message it passes over
\* is no turn-start message.
SkipsNoTurnStart(msgs, cp) ==
  (/\ cp.lastAgentLoopInnerStartIdx = cp.lastAgentLoopStartIdx
   /\ cp.lastAgentLoopInnerStartIdx + 1 < Len(msgs)) =>
    ~PureTextUser(At(msgs, cp.lastAgentLoopInnerStartIdx + 1))

\* C36: whatever ticks have run, failed or been interrupted, the first message
\* of a log has role user and no two consecutive messages have the same role; so
\* the message a scan starting at + 2 passes over is never a turn-start message.
C36_RolesAlternate ==
  \A a \in AgentIds :
    a \in Agents =>
      /\ Alternates(messages[a])
      /\ SkipsNoTurnStart(messages[a], contextPruning[a])
      /\ pc[a] = "render" =>
           \A cp \in Visited(messages[a], contextPruning[a], maxTokens) :
             SkipsNoTurnStart(messages[a], cp)

\* A tick was interrupted after it had pushed an agent message with a tool_use,
\* and the next tick has pushed a turn-start message right after it; the cursors
\* coincide on an earlier turn-start message.
C36_Witness ==
  \E a \in AgentIds :
    /\ a \in Agents
    /\ Inner(a) = Loop(a)
    /\ \E i \in 1 .. Len(messages[a]) - 1 :
         /\ HasToolUse(messages[a][i])
         /\ PureTextUser(messages[a][i + 1])
         /\ Inner(a) + 1 < i

\* The last n messages of the sequence msgs.
Suffix(msgs, n) == SubSeq(msgs, Len(msgs) - n + 1, Len(msgs))

\* C37: when tick calls the model, the window render returned holds the messages
\* of the log from the inner start to the last one, in order and without a gap,
\* with at most the message at the loop start in front of them, and its last
\* message, the last message of the log, has role user.
C37_WindowEndsWithUser ==
  \A a \in AgentIds :
    (a \in Agents /\ pc[a] = "run") =>
      LET w == messagesForModel[a].value
          n == Len(messages[a]) - Inner(a)
      IN /\ messagesForModel[a].ok
         /\ n >= 1
         /\ Len(w) \in {n, n + 1}
         /\ Len(w) = n + 1 <=> Inner(a) > Loop(a)
         /\ Suffix(w, n) = Suffix(messages[a], n)
         /\ Len(w) = n + 1 => w[1] = At(messages[a], Loop(a))
         /\ Last(w) = Last(messages[a])
         /\ Last(w).role = "user"
         /\ Last(messages[a]).role = "user"

\* The model is called on a pruned window: the turn-start message of the loop,
\* then the log from an inner start further on, which ends with tool results.
C37_Witness ==
  \E a \in AgentIds :
    /\ a \in Agents
    /\ pc[a] = "run"
    /\ Inner(a) > Loop(a) + 1
    /\ Len(messagesForModel[a].value) = Len(messages[a]) - Inner(a) + 1
    /\ Len(messages[a]) - Inner(a) >= 2
    /\ ~PureTextUser(Last(messages[a]))

\* The message res answers the agent message m: it has role user and holds
\* tool_result parts only, one for each tool_use of m.
Answers(res, m) ==
  /\ res.role = "user"
  /\ Len(res.content) = Len(ToolUses(m.content))
  /\ \A j \in 1 .. Len(res.content) : res.content[j].type = "tool_result"
  /\ \A k \in 1 .. Len(ToolUses(m.content)) :
       Cardinality({j \in 1 .. Len(res.content) :
                      res.content[j].id = ToolUses(m.content)[k].id}) = 1

\* C38: when no tick was interrupted and the tick of an agent has returned, each
\* agent message of its log with a tool_use is followed by a user message with
\* one tool_result for each of its tool_use parts, and each agent message
\* without one is followed by a turn-start message or by nothing.
C38_RequestsAnswered ==
  \A a \in AgentIds :
    (a \in Agents /\ pc[a] = "idle") =>
      \A i \in 1 .. Len(messages[a]) :
        messages[a][i].role = "agent" =>
          IF HasToolUse(messages[a][i])
          THEN /\ i < Len(messages[a])
               /\ Answers(messages[a][i + 1], messages[a][i])
          ELSE i < Len(messages[a]) => PureTextUser(messages[a][i + 1])

\* A tick has returned success; the log holds a text-only agent message followed
\* by a turn-start message, and an agent message with two tool_use parts
\* followed by their two results, one of them an error.
C38_Witness ==
  \E a \in AgentIds :
    /\ a \in Agents
    /\ pc[a] = "idle"
    /\ tickResult[a] = ok
    /\ \E i \in 1 .. Len(messages[a]) - 1 :
         /\ messages[a][i].role = "agent"
         /\ ~HasToolUse(messages[a][i])
         /\ PureTextUser(messages[a][i + 1])
    /\ \E i \in 1 .. Len(messages[a]) - 1 :
         /\ Len(ToolUses(messages[a][i].content)) = 2
         /\ \E j \in 1 .. 2 : messages[a][i + 1].content[j].isError
         /\ \E j \in 1 .. 2 : ~messages[a][i + 1].content[j].isError

\* The last tick of agent a has returned the overflow error of render.
Overflowed(a) ==
  /\ a \in Agents
  /\ pc[a] = "idle"
  /\ tickResult[a] = err("agent_loop_overflow_error", OverflowMessage, 0)

\* Agent a is between two calls of the model, its log ends with a user message,
\* the window at its cursors is over the budget and no advance is left.
Stuck(a) ==
  /\ a \in Agents
  /\ pc[a] \in {"idle", "render"}
  /\ Len(messages[a]) > 0
  /\ Last(messages[a]).role = "user"
  /\ tokens(window(messages[a], contextPruning[a])) > maxTokens
  /\ shiftContextPruning(messages[a], contextPruning[a]).code =
       "agent_loop_overflow_error"

RECURSIVE Advances(_, _, _, _)
Advances(msgs, cp, max, fuel) ==
  IF fuel > 0 /\ tokens(window(msgs, cp)) > max /\ shiftContextPruning(msgs, cp).ok
  THEN <<cp>> \o Advances(msgs, shiftContextPruning(msgs, cp).cp, max, fuel - 1)
  ELSE <<cp>>

\* C40: on a log of n messages every advance of renderForModel moves the inner
\* start strictly forward and keeps it below n, so the loop makes n advances at
\* most and then returns a window or the overflow error.
C40_RenderTerminates ==
  \A a \in AgentIds :
    (a \in Agents /\ pc[a] = "render") =>
      LET n == Len(messages[a])
          adv == Advances(messages[a], contextPruning[a], maxTokens, n + 1)
      IN /\ \A k \in 1 .. Len(adv) - 1 :
              /\ adv[k + 1].lastAgentLoopInnerStartIdx > adv[k].lastAgentLoopInnerStartIdx
              /\ adv[k + 1].lastAgentLoopInnerStartIdx < n
         /\ Len(adv) - 1 <= n
         /\ LET r == renderForModel(messages[a], contextPruning[a], maxTokens)
            IN /\ r.ok \/ r.code = "agent_loop_overflow_error"
               /\ r.ok => r.cp = adv[Len(adv)]
               /\ ~r.ok => r.at = adv[Len(adv)]

\* Render is about to advance three times before it returns.
C40_Witness ==
  \E a \in AgentIds :
    /\ a \in Agents
    /\ pc[a] = "render"
    /\ Len(Advances(messages[a], contextPruning[a], maxTokens,
                    Len(messages[a]) + 1)) >= 4

====
